---- MODULE Spec2Model ----
(***************************************************************************)
(* Artemis Eco Forum: the shared application context (AppProvider), the    *)
(* home feed's derived view (HomePage) and the backend they talk to        *)
(* (tables posts, comments, user_profiles, the auth session, the realtime  *)
(* change feed and the browser's local storage).                           *)
(*                                                                         *)
(* Every asynchronous handler is cut at its awaits.  A backend request is  *)
(* served and the handler resumed in one step wherever the resumed code    *)
(* reads nothing but its own closure; where it reads or writes the         *)
(* component state (the optimistic upvote patch, the initial fetch) the    *)
(* serving of the request and the resumption are two steps, so that a      *)
(* change notification can be delivered in between.                        *)
(***************************************************************************)
EXTENDS Integers, Sequences, FiniteSets, TLC

(***************************************************************************)
(* Bounds of the model.                                                    *)
(***************************************************************************)
\* calls of the gateway in a behaviour
MaxCalls == 3
\* sign-in events and changes of preferences in a behaviour from construction
MaxIdentityCalls == 2
MaxChannel == 3
MaxRuns == 2
MaxTime == 2
MaxRows == 3

(***************************************************************************)
(* Values.                                                                 *)
(***************************************************************************)
\* an absent optional post reference (Post.repost_of?: string)
NoId == 0
\* an absent optional PostFlag
NoFlag == "none"
\* an absent optional string (image_url, email)
NoText == <<>>
\* useState<User | null>(null)
NoUser == [id |-> "null"]
\* useState<Post | undefined>(undefined)
NoPost == [id |-> NoId]
\* the create page with its PostForm and the CommentSection of a post, as
\* they are first rendered: useState("") and useState(false).  editing is the
\* post of the edit page when that page is shown instead, defaultTitle its
\* title; waiting are the calls a handleSubmit awaits, submitted the submit
\* events handled so far (observation only)
NoForms ==
    [editing |-> NoId, defaultTitle |-> <<>>, title |-> <<>>, validationError |-> "",
     localLoading |-> FALSE, content |-> <<>>, waiting |-> {}, submitted |-> <<>>]

\* PostPage when no post route is shown
NoPostPage ==
    [postId |-> NoId, post |-> NoPost, comments |-> <<>>, originalPost |-> NoPost,
     localLoading |-> FALSE, fetches |-> <<>>, upvoting |-> {}]

\* the identifier kept under artemis-eco-user-id, another user's identifier,
\* and the identifier the auth provider issues to the session signing in
LocalId == "local-uuid"
OtherId == "other-uuid"
AuthId == "auth-uuid"

PostFlag == {"Question", "Opinion", "Tip", "News", "Project", "Discussion"}

DefaultPreferences ==
    [showImagesInFeed |-> TRUE, showContentInFeed |-> FALSE, colorScheme |-> "system"]

Adjectives ==
    <<"Green", "Forest", "Earth", "River", "Ocean", "Wild", "Nature", "Eco", "Solar", "Wind">>

Nouns ==
    <<"Guardian", "Defender", "Warrior", "Friend", "Hero", "Spirit", "Advocate", "Pioneer",
      "Keeper", "Voice">>

\* every value generateRandomUsername can return: `${randomAdjective}${randomNoun}`
RandomUsernames ==
    {<<Adjectives[i], Nouns[j]>> : i \in 1..Len(Adjectives), j \in 1..Len(Nouns)}

(***************************************************************************)
(* Sequences.                                                              *)
(***************************************************************************)
Range(s) == {s[i] : i \in 1..Len(s)}

\* {...base, ...partial}; also the row an update of the fields in partial leaves
Spread(base, partial) ==
    [k \in DOMAIN base |-> IF k \in DOMAIN partial THEN partial[k] ELSE base[k]]

RemoveAt(s, i) == SubSeq(s, 1, i - 1) \o SubSeq(s, i + 1, Len(s))

\* the sequences that list every element of the set S exactly once
Orderings(S) ==
    {s \in [1..Cardinality(S) -> S] : \A x \in S : \E i \in 1..Cardinality(S) : s[i] = x}

(***************************************************************************)
(* Text: a string is the sequence of its characters.                       *)
(***************************************************************************)
IsSpace(c) == c = " "

ToLower(c) == CASE c = "A" -> "a" [] c = "B" -> "b" [] OTHER -> c

\* a test for the empty string that does not trim
IsEmptyText(t) == t = <<>>

\* String.prototype.trim() leaves the empty string
IsBlank(t) == \A i \in 1..Len(t) : IsSpace(t[i])

\* column ILIKE %q%: q occurs in t, letter case ignored
ILike(t, q) ==
    \E k \in 0..(Len(t) - Len(q)) :
        \A i \in 1..Len(q) : ToLower(t[k + i]) = ToLower(q[i])

(***************************************************************************)
(* State.                                                                  *)
(***************************************************************************)
VARIABLES
    \* the backend: tables, realtime feed, auth session, clock and id source
    dbPosts, dbComments, dbProfiles, channel, session, now, nextId,
    \* the browser: localStorage["artemis-eco-user-id"]
    storage,
    \* AppProvider
    initPc, initData, isLoading, posts, comments, user, toasts, calls,
    \* HomePage
    homeMounted, searchQuery, sortBy, selectedFlag, filteredPosts, localLoading, runs,
    \* observation only: the sequence the last applyFilters run handed to
    \* Array.prototype.sort, and the last thing the user did on the page
    sortInput, lastInput,
    \* PostPage: its route parameter, its state and its pending fetchData runs
    postPage,
    \* PostForm and CommentSection: their fields and flags, and their pending
    \* handleSubmit calls
    forms

backendVars == <<dbPosts, dbComments, dbProfiles, channel, session, now, nextId, storage>>
providerVars == <<initPc, initData, isLoading, posts, comments, user, toasts, calls>>
homeVars == <<homeMounted, searchQuery, sortBy, selectedFlag, filteredPosts, localLoading,
              runs, sortInput, lastInput, postPage, forms>>
vars == <<backendVars, providerVars, homeVars>>

(***************************************************************************)
(* The backend's tables.                                                   *)
(***************************************************************************)
\* .eq("id", id).single(): the row, or no data
HasRow(table, id) == \E r \in table : r.id = id
RowOf(table, id) == CHOOSE r \in table : r.id = id

\* .update(fields).eq("id", id)
UpdateRow(table, id, fields) ==
    {IF r.id = id THEN Spread(r, fields) ELSE r : r \in table}

\* .delete().eq("id", id)
DeleteRow(table, id) == {r \in table : r.id # id}

\* postgres_changes payloads: eventType, table, and the row (payload.new, or
\* payload.old for a DELETE)
Event(table, type, row) == [table |-> table, eventType |-> type, row |-> row]

\* rows in ascending id order, the order the feed reports a multi-row change in
RECURSIVE RowsById(_)
RowsById(S) ==
    IF S = {} THEN <<>>
    ELSE LET r == CHOOSE x \in S : \A y \in S : x.id <= y.id
         IN <<r>> \o RowsById(S \ {r})

\* .order("created_at", {ascending: false}): any order of the rows that is
\* descending in created_at (rows with equal timestamps come in either order)
OrderedDesc(S) ==
    {s \in Orderings(S) : \A i \in 1..(Len(s) - 1) : s[i].created_at >= s[i + 1].created_at}

\* .order("created_at", {ascending: true})
OrderedAsc(S) ==
    {s \in Orderings(S) : \A i \in 1..(Len(s) - 1) : s[i].created_at <= s[i + 1].created_at}

(***************************************************************************)
(* HomePage: the derived view.                                             *)
(***************************************************************************)
\* a feed that ignores the selected flag
FilterFlagIgnored(s, flag) == s

\* result.filter((post) => post.flag === selectedFlag), skipped when no flag is selected
FilterFlag(s, flag) ==
    IF flag = NoFlag THEN s
    ELSE LET Keep(post) == post.flag = flag IN SelectSeq(s, Keep)

\* the comparator handed to sort: negative when a goes first, positive when b does
Compare(a, b, by) ==
    IF by = "time" THEN b.created_at - a.created_at
    ELSE IF by = "upvotes" THEN b.upvotes - a.upvotes
    ELSE 0

\* an insertion that puts x before the elements it ties with
RECURSIVE InsertSortedBeforeTies(_, _, _)
InsertSortedBeforeTies(x, s, by) ==
    IF s = <<>> THEN <<x>>
    ELSE IF Compare(Head(s), x, by) < 0
         THEN <<Head(s)>> \o InsertSortedBeforeTies(x, Tail(s), by)
    ELSE <<x>> \o s

\* one insertion of Array.prototype.sort (stable since ES2019): x goes behind
\* every element it does not have to precede
RECURSIVE InsertSorted(_, _, _)
InsertSorted(x, s, by) ==
    IF s = <<>> THEN <<x>>
    ELSE IF Compare(Head(s), x, by) <= 0 THEN <<Head(s)>> \o InsertSorted(x, Tail(s), by)
    ELSE <<x>> \o s

\* result.sort((a, b) => ...)
RECURSIVE SortPosts(_, _)
SortPosts(s, by) ==
    IF s = <<>> THEN <<>>
    ELSE InsertSorted(s[Len(s)], SortPosts(SubSeq(s, 1, Len(s) - 1), by), by)

\* the rows the search request selects:
\* .or(`title.ilike.%${query}%,content.ilike.%${query}%`)
SearchRows(table, q) == {r \in table : ILike(r.title, q) \/ ILike(r.content, q)}

\* an applyFilters run needs a slot among the pending runs only when it awaits a search
CanRunEffect(q) == ~homeMounted \/ IsBlank(q) \/ Len(runs) < MaxRuns

\* a pending request of the page: an applyFilters run, a handleSearch or a
\* resetFilters, with the query, flag and sort mode of the render it started in
Run(kind, q, f, s) == [kind |-> kind, query |-> q, flag |-> f, sort |-> s]

IsRun(k, kind) == k \in 1..Len(runs) /\ runs[k].kind = kind

\* applyFilters.  p, q, f, s are posts, searchQuery, selectedFlag and sortBy of
\* the render that runs it.  With an empty query nothing is awaited; with a blank
\* one searchPosts returns the mirror at once; otherwise the run is suspended in
\* its search request.
ApplyFilters(p, q, f, s) ==
    IF IsBlank(q)
    THEN /\ sortInput' = FilterFlag(p, f)
         /\ filteredPosts' = SortPosts(FilterFlag(p, f), s)
         /\ localLoading' = FALSE
         /\ UNCHANGED runs
    ELSE /\ runs' = Append(runs, Run("applyFilters", q, f, s))
         /\ localLoading' = TRUE
         /\ UNCHANGED <<filteredPosts, sortInput>>

\* the effect on [posts, searchQuery, sortBy, selectedFlag, searchPosts, ...]: it
\* runs applyFilters after every render of the provider or of the page that
\* changed one of them
ApplyFiltersEffect(p, q, f, s) ==
    IF homeMounted THEN ApplyFilters(p, q, f, s)
    ELSE UNCHANGED <<filteredPosts, localLoading, runs, sortInput>>

\* the effect after a render that changed the provider's state
ProviderRenderedHome(p) ==
    /\ ApplyFiltersEffect(p, searchQuery, selectedFlag, sortBy)
    /\ UNCHANGED <<homeMounted, searchQuery, sortBy, selectedFlag, lastInput>>

\* the effect after a render that changed only the provider's state
ProviderRendered(p) ==
    /\ ProviderRenderedHome(p)
    /\ UNCHANGED <<postPage, forms>>

\* the input's onChange: setSearchQuery(e.target.value), then the effect
SetSearchQuery(q) ==
    /\ homeMounted
    /\ q # searchQuery
    /\ CanRunEffect(q)
    /\ searchQuery' = q
    /\ lastInput' = "query"
    /\ UNCHANGED <<postPage, forms>>
    /\ ApplyFiltersEffect(posts, q, selectedFlag, sortBy)
    /\ UNCHANGED <<homeMounted, sortBy, selectedFlag>>
    /\ UNCHANGED <<backendVars, providerVars>>

\* the select's onValueChange: setSortBy(value), then the effect
SetSortBy(s) ==
    /\ homeMounted
    /\ s # sortBy
    /\ CanRunEffect(searchQuery)
    /\ sortBy' = s
    /\ lastInput' = "sort"
    /\ UNCHANGED <<postPage, forms>>
    /\ ApplyFiltersEffect(posts, searchQuery, selectedFlag, s)
    /\ UNCHANGED <<homeMounted, searchQuery, selectedFlag>>
    /\ UNCHANGED <<backendVars, providerVars>>

\* the search of an applyFilters run is served and the run resumes: the flag
\* filter and the sort of the render it started in, then setFilteredPosts
ApplyFiltersResolve(k) ==
    /\ IsRun(k, "applyFilters")
    /\ \E failed \in BOOLEAN :
        IF failed
        THEN /\ toasts' = toasts \cup {"Error searching posts"}
             /\ sortInput' = <<>>
             /\ filteredPosts' = <<>>
        ELSE \E rows \in Orderings(SearchRows(dbPosts, runs[k].query)) :
                /\ sortInput' = FilterFlag(rows, runs[k].flag)
                /\ filteredPosts' = SortPosts(FilterFlag(rows, runs[k].flag), runs[k].sort)
                /\ UNCHANGED toasts
    /\ localLoading' = FALSE
    /\ runs' = RemoveAt(runs, k)
    /\ UNCHANGED <<homeMounted, searchQuery, sortBy, selectedFlag, lastInput, postPage, forms>>
    /\ UNCHANGED backendVars
    /\ UNCHANGED <<initPc, initData, isLoading, posts, comments, user, calls>>

\* the form's onSubmit: handleSearch shows what searchPosts returns, as it comes:
\* the mirror at once for a blank query, otherwise the answer of a request
HandleSearch ==
    /\ homeMounted
    /\ lastInput' = "submit"
    /\ UNCHANGED <<postPage, forms>>
    /\ IF IsBlank(searchQuery)
       THEN /\ filteredPosts' = posts
            /\ localLoading' = FALSE
            /\ UNCHANGED runs
       ELSE /\ Len(runs) < MaxRuns
            /\ runs' = Append(runs, Run("handleSearch", searchQuery, selectedFlag, sortBy))
            /\ localLoading' = TRUE
            /\ UNCHANGED filteredPosts
    /\ UNCHANGED <<homeMounted, searchQuery, sortBy, selectedFlag, sortInput>>
    /\ UNCHANGED <<backendVars, providerVars>>

\* the search of a handleSearch is served and it resumes: setFilteredPosts(results)
HandleSearchResolve(k) ==
    /\ IsRun(k, "handleSearch")
    /\ \E failed \in BOOLEAN :
        IF failed
        THEN /\ toasts' = toasts \cup {"Error searching posts"}
             /\ filteredPosts' = <<>>
        ELSE \E rows \in Orderings(SearchRows(dbPosts, runs[k].query)) :
                /\ filteredPosts' = rows
                /\ UNCHANGED toasts
    /\ localLoading' = FALSE
    /\ runs' = RemoveAt(runs, k)
    /\ UNCHANGED <<homeMounted, searchQuery, sortBy, selectedFlag, sortInput, lastInput, postPage, forms>>
    /\ UNCHANGED backendVars
    /\ UNCHANGED <<initPc, initData, isLoading, posts, comments, user, calls>>

\* resetFilters to its await: the three setters, setLocalLoading(true), and the
\* sortedPosts("time") request is sent; the render that follows runs the effect
\* (with an empty query, to its end) when a filter changed
ResetFilters ==
    /\ homeMounted
    /\ Len(runs) < MaxRuns
    /\ searchQuery' = <<>>
    /\ selectedFlag' = NoFlag
    /\ sortBy' = "time"
    /\ lastInput' = "reset"
    /\ UNCHANGED <<postPage, forms>>
    /\ runs' = Append(runs, Run("resetFilters", <<>>, NoFlag, "time"))
    /\ IF <<searchQuery, selectedFlag, sortBy>> # <<searchQuery', selectedFlag', sortBy'>>
       THEN /\ sortInput' = FilterFlag(posts, NoFlag)
            /\ filteredPosts' = SortPosts(FilterFlag(posts, NoFlag), "time")
            /\ localLoading' = FALSE
       ELSE /\ localLoading' = TRUE
            /\ UNCHANGED <<filteredPosts, sortInput>>
    /\ UNCHANGED homeMounted
    /\ UNCHANGED <<backendVars, providerVars>>

\* sortedPosts("time") is served and resetFilters resumes: setFilteredPosts(defaultSorted)
ResetFiltersResolve(k) ==
    /\ IsRun(k, "resetFilters")
    /\ \E failed \in BOOLEAN :
        IF failed
        THEN /\ toasts' = toasts \cup {"Error sorting posts"}
             /\ filteredPosts' = <<>>
        ELSE \E rows \in OrderedDesc(dbPosts) :
                /\ filteredPosts' = rows
                /\ UNCHANGED toasts
    /\ localLoading' = FALSE
    /\ runs' = RemoveAt(runs, k)
    /\ UNCHANGED <<homeMounted, searchQuery, sortBy, selectedFlag, sortInput, lastInput, postPage, forms>>
    /\ UNCHANGED backendVars
    /\ UNCHANGED <<initPc, initData, isLoading, posts, comments, user, calls>>

\* the page is mounted: its first render runs the effect on the initial state
MountHome ==
    /\ ~homeMounted
    /\ homeMounted' = TRUE
    /\ ApplyFilters(posts, searchQuery, selectedFlag, sortBy)
    /\ UNCHANGED <<searchQuery, sortBy, selectedFlag, lastInput, postPage, forms>>
    /\ UNCHANGED <<backendVars, providerVars>>

(***************************************************************************)
(* AppProvider: the realtime subscriptions.                                *)
(***************************************************************************)
\* the posts-changes handler
ApplyPostEvent(prev, e) ==
    IF e.eventType = "INSERT" THEN <<e.row>> \o prev
    ELSE IF e.eventType = "UPDATE"
         THEN LET Replace(post) == IF post.id = e.row.id THEN e.row ELSE post
              IN [k \in 1..Len(prev) |-> Replace(prev[k])]
    ELSE IF e.eventType = "DELETE"
         THEN LET Keep(post) == post.id # e.row.id IN SelectSeq(prev, Keep)
    ELSE prev

\* a comments-changes handler that treats comments as the posts are treated
ApplyCommentEventAtHead(prev, e) == ApplyPostEvent(prev, e)

\* the comments-changes handler
ApplyCommentEvent(prev, e) ==
    IF e.eventType = "INSERT" THEN prev \o <<e.row>>
    ELSE IF e.eventType = "UPDATE"
         THEN LET Replace(comment) == IF comment.id = e.row.id THEN e.row ELSE comment
              IN [k \in 1..Len(prev) |-> Replace(prev[k])]
    ELSE IF e.eventType = "DELETE"
         THEN LET Keep(comment) == comment.id # e.row.id IN SelectSeq(prev, Keep)
    ELSE prev

\* the feed delivers its oldest undelivered change to the subscribed handler
DeliverEvent ==
    /\ channel # <<>>
    /\ CanRunEffect(searchQuery)
    /\ LET e == Head(channel)
       IN /\ channel' = Tail(channel)
          /\ IF e.table = "posts"
             THEN /\ posts' = ApplyPostEvent(posts, e)
                  /\ UNCHANGED comments
             ELSE /\ comments' = ApplyCommentEvent(comments, e)
                  /\ UNCHANGED posts
    /\ ProviderRendered(posts')
    /\ UNCHANGED <<dbPosts, dbComments, dbProfiles, session, now, nextId, storage>>
    /\ UNCHANGED <<initPc, initData, isLoading, user, toasts, calls>>

(***************************************************************************)
(* AppProvider: calls of the context's operations.  A call is a record of  *)
(* its operation, the await it is suspended in (pc), what it captured, the *)
(* {data, error} of its last request, and how it ended (result).           *)
(***************************************************************************)
\* a call captures the user and the time of the render it was made in
Call(op, pc, target, args) ==
    [op |-> op, pc |-> pc, target |-> target, args |-> args, user |-> user, at |-> now,
     data |-> 0, error |-> FALSE, result |-> "pending"]

\* a guard that lets the call go on to its first request
ThrewNothing(op, target, args) == Call(op, "select", target, args)

\* throw new Error("User not authenticated")
Threw(op, target, args) ==
    [Call(op, "done", target, args) EXCEPT !.result = "threw"]

At(i, op, pc) == i \in 1..Len(calls) /\ calls[i].op = op /\ calls[i].pc = pc

Goto(i, pc, data, error) ==
    calls' = [calls EXCEPT ![i].pc = pc, ![i].data = data, ![i].error = error]

Return(i, data, result) ==
    calls' = [calls EXCEPT ![i].pc = "done", ![i].data = data, ![i].result = result]

\* upvotePost, to its first await: the guard on user, then the select is sent
UpvoteCall(p) ==
    /\ Len(calls) < MaxCalls
    /\ calls' = Append(calls,
                       IF user = NoUser
                       THEN Threw("upvotePost", p, <<>>)
                       ELSE Call("upvotePost", "select", p, <<>>))
    /\ UNCHANGED backendVars
    /\ UNCHANGED <<homeMounted, searchQuery, sortBy, selectedFlag, filteredPosts, localLoading,
                   runs, sortInput, lastInput>>
    /\ UNCHANGED <<initPc, initData, isLoading, posts, comments, user, toasts>>

\* the same, called from a post card of the feed
UpvoteStart(p) ==
    /\ UpvoteCall(p)
    /\ UNCHANGED <<postPage, forms>>

\* a select whose missing data is not looked at: the update is sent with a count of 0
UpvoteSelectUnchecked(i) ==
    /\ At(i, "upvotePost", "select")
    /\ Goto(i, "update",
            IF HasRow(dbPosts, calls[i].target) THEN RowOf(dbPosts, calls[i].target).upvotes
            ELSE 0,
            FALSE)
    /\ UNCHANGED <<backendVars, homeVars>>
    /\ UNCHANGED <<initPc, initData, isLoading, posts, comments, user, toasts>>

\* select("upvotes").eq("id", post_id).single() is served and the call resumes:
\* without data it notifies "Post not found" and returns, otherwise the update is sent
UpvoteSelect(i) ==
    /\ At(i, "upvotePost", "select")
    /\ \E failed \in BOOLEAN :
        IF failed \/ ~HasRow(dbPosts, calls[i].target)
        THEN /\ toasts' = toasts \cup {"Post not found"}
             /\ calls' = [calls EXCEPT ![i].pc = "done", ![i].error = failed,
                                       ![i].result = "notFound"]
        ELSE /\ Goto(i, "update", RowOf(dbPosts, calls[i].target).upvotes, FALSE)
             /\ UNCHANGED toasts
    /\ UNCHANGED <<backendVars, homeVars>>
    /\ UNCHANGED <<initPc, initData, isLoading, posts, comments, user>>

\* the new upvote count of the row the update is about
WithUpvotes(n) == [upvotes |-> n]

\* update({upvotes: data.upvotes + 1}).eq("id", post_id) is served; the call does
\* not look at the outcome
UpvoteUpdate(i) ==
    /\ At(i, "upvotePost", "update")
    /\ Len(channel) < MaxChannel
    /\ \E failed \in BOOLEAN :
        IF failed \/ ~HasRow(dbPosts, calls[i].target)
        THEN /\ Goto(i, "patch", calls[i].data, failed)
             /\ UNCHANGED <<dbPosts, channel>>
        ELSE LET Change(r) == Spread(r, WithUpvotes(calls[i].data + 1))
             IN /\ dbPosts' = UpdateRow(dbPosts, calls[i].target, WithUpvotes(calls[i].data + 1))
                /\ channel' = Append(channel,
                                     Event("posts", "UPDATE",
                                           Change(RowOf(dbPosts, calls[i].target))))
                /\ Goto(i, "patch", calls[i].data, FALSE)
    /\ UNCHANGED <<dbComments, dbProfiles, session, now, nextId, storage, homeVars>>
    /\ UNCHANGED <<initPc, initData, isLoading, posts, comments, user, toasts>>

\* the optimistic patch of the mirror: post.upvotes + 1 for the upvoted id
PatchUpvote(prev, id) ==
    LET Bump(post) == IF post.id = id THEN [post EXCEPT !.upvotes = post.upvotes + 1] ELSE post
    IN [k \in 1..Len(prev) |-> Bump(prev[k])]

\* the call resumes after the update and patches the mirror
UpvotePatch(i) ==
    /\ At(i, "upvotePost", "patch")
    /\ CanRunEffect(searchQuery)
    /\ posts' = PatchUpvote(posts, calls[i].target)
    /\ Return(i, calls[i].data, "returned")
    /\ ProviderRendered(posts')
    /\ UNCHANGED backendVars
    /\ UNCHANGED <<initPc, initData, isLoading, comments, user, toasts>>

(***************************************************************************)
(* AppProvider: posts.                                                     *)
(***************************************************************************)
\* a row of posts
Post(id, title, content, image_url, created_at, upvotes, user_id, user_name, flag, repost_of) ==
    [id |-> id, title |-> title, content |-> content, image_url |-> image_url,
     created_at |-> created_at, upvotes |-> upvotes, user_id |-> user_id,
     user_name |-> user_name, flag |-> flag, repost_of |-> repost_of]

\* the arguments of createPost and updatePost
PostArgs(title, content, image_url, flag, repost_of) ==
    [title |-> title, content |-> content, image_url |-> image_url, flag |-> flag,
     repost_of |-> repost_of]

\* newPost of createPost: upvotes 0, owned by the active user, stamped with new Date()
NewPost(id, a, u, t) ==
    Post(id, a.title, a.content, a.image_url, t, 0, u.id, u.full_name, a.flag, a.repost_of)

\* the first statements of createPost, updatePost, deletePost, createComment and
\* deleteComment: setIsLoading(true), then the throw when no user is active,
\* otherwise the call is suspended in its first request
StartLoadingCall(op, pc, target, args) ==
    /\ Len(calls) < MaxCalls
    /\ CanRunEffect(searchQuery)
    /\ isLoading' = TRUE
    /\ calls' = Append(calls,
                       IF user = NoUser THEN Threw(op, target, args)
                       ELSE Call(op, pc, target, args))
    /\ ProviderRenderedHome(posts)
    /\ UNCHANGED backendVars
    /\ UNCHANGED <<initPc, initData, posts, comments, user, toasts>>

\* the same, called from outside the forms and the detail page
StartLoading(op, pc, target, args) ==
    /\ StartLoadingCall(op, pc, target, args)
    /\ UNCHANGED <<postPage, forms>>

\* a call resumes from its last request: setIsLoading(false), a toast, the result
Finish(i, toast, data, result) ==
    /\ CanRunEffect(searchQuery)
    /\ isLoading' = FALSE
    /\ toasts' = IF toast = "" THEN toasts ELSE toasts \cup {toast}
    /\ Return(i, data, result)
    /\ ProviderRendered(posts)
    /\ UNCHANGED <<initPc, initData, posts, comments, user>>

\* createPost(title, content, image_url, flag, repost_of)
CreatePostStart(a) == StartLoading("createPost", "insert", NoId, a)

\* insert(newPost).select().single() is served and createPost resumes
CreatePostInsert(i) ==
    /\ At(i, "createPost", "insert")
    /\ Len(channel) < MaxChannel
    /\ Cardinality(dbPosts) < MaxRows
    /\ \E failed \in BOOLEAN :
        IF failed
        THEN /\ Finish(i, "Error creating post", 0, "threw")
             /\ UNCHANGED <<dbPosts, channel, nextId>>
        ELSE LET row == NewPost(nextId, calls[i].args, calls[i].user, calls[i].at)
             IN /\ dbPosts' = dbPosts \cup {row}
                /\ channel' = Append(channel, Event("posts", "INSERT", row))
                /\ nextId' = nextId + 1
                /\ Finish(i, "Post created", row, "returned")
    /\ UNCHANGED <<dbComments, dbProfiles, session, now, storage>>

\* a check that does not compare the owner with the caller
DeniedWithoutOwner(table, id, u, failed) ==
    failed \/ ~HasRow(table, id)

\* the ownership check of updatePost, deletePost and deleteComment on the answer of
\* select("user_id").eq("id", id).single(): !data || data.user_id !== user.id
Denied(table, id, u, failed) ==
    failed \/ ~HasRow(table, id) \/ RowOf(table, id).user_id # u.id

\* updatePost(post_id, title, content, image_url, flag)
UpdatePostStart(p, a) == StartLoading("updatePost", "select", p, a)

\* the ownership select is served and updatePost resumes: access denied, or the
\* update is sent
UpdatePostSelect(i) ==
    /\ At(i, "updatePost", "select")
    /\ \E failed \in BOOLEAN :
        IF Denied(dbPosts, calls[i].target, calls[i].user, failed)
        THEN Finish(i, "Access denied", 0, "false")
        ELSE /\ Goto(i, "update", RowOf(dbPosts, calls[i].target).user_id, FALSE)
             /\ UNCHANGED <<initPc, initData, isLoading, posts, comments, user, toasts, homeVars>>
    /\ UNCHANGED backendVars

\* an update that writes the counter of a fresh post with the edited fields
PostUpdateResettingUpvotes(a) ==
    [title |-> a.title, content |-> a.content, image_url |-> a.image_url, flag |-> a.flag,
     upvotes |-> 0]

\* the fields update({title, content, image_url, flag}) writes
PostUpdate(a) ==
    [title |-> a.title, content |-> a.content, image_url |-> a.image_url, flag |-> a.flag]

\* the row the update leaves
EditedPost(r, a) == Spread(r, PostUpdate(a))

\* update(...).eq("id", post_id) is served and updatePost resumes
UpdatePostWrite(i) ==
    /\ At(i, "updatePost", "update")
    /\ Len(channel) < MaxChannel
    /\ \E failed \in BOOLEAN :
        IF failed
        THEN /\ Finish(i, "Error updating post", 0, "false")
             /\ UNCHANGED <<dbPosts, channel>>
        ELSE LET Change(r) == EditedPost(r, calls[i].args)
             IN /\ dbPosts' = UpdateRow(dbPosts, calls[i].target, PostUpdate(calls[i].args))
                /\ channel' =
                     IF HasRow(dbPosts, calls[i].target)
                     THEN Append(channel,
                                 Event("posts", "UPDATE", Change(RowOf(dbPosts, calls[i].target))))
                     ELSE channel
                /\ Finish(i, "Post updated", 0, "true")
    /\ UNCHANGED <<dbComments, dbProfiles, session, now, nextId, storage>>

\* deletePost(post_id)
DeletePostStart(p) == StartLoading("deletePost", "select", p, <<>>)

\* the ownership select is served and deletePost resumes: access denied, or the
\* delete of the post's comments is sent
DeletePostSelect(i) ==
    /\ At(i, "deletePost", "select")
    /\ \E failed \in BOOLEAN :
        IF Denied(dbPosts, calls[i].target, calls[i].user, failed)
        THEN Finish(i, "Access denied", 0, "false")
        ELSE /\ Goto(i, "comments", RowOf(dbPosts, calls[i].target).user_id, FALSE)
             /\ UNCHANGED <<initPc, initData, isLoading, posts, comments, user, toasts, homeVars>>
    /\ UNCHANGED backendVars

\* a comment delete that matches no row
CommentsOfNoPost(table, p) == {}

\* the rows from("comments").delete().eq("post_id", post_id) removes
CommentsOf(table, p) == {c \in table : c.post_id = p}

\* the comment delete is served (its outcome is not looked at) and deletePost
\* resumes by sending the delete of the post
DeletePostComments(i) ==
    /\ At(i, "deletePost", "comments")
    /\ \E failed \in BOOLEAN :
        /\ IF failed
           THEN UNCHANGED <<dbComments, channel>>
           ELSE LET gone == CommentsOf(dbComments, calls[i].target)
                    Removed(c) == Event("comments", "DELETE", c)
                IN /\ Len(channel) + Cardinality(gone) <= MaxChannel
                   /\ dbComments' = dbComments \ gone
                   /\ channel' = channel \o [k \in 1..Cardinality(gone) |-> Removed(RowsById(gone)[k])]
        /\ Goto(i, "post", calls[i].data, failed)
    /\ UNCHANGED <<dbPosts, dbProfiles, session, now, nextId, storage, homeVars>>
    /\ UNCHANGED <<initPc, initData, isLoading, posts, comments, user, toasts>>

\* from("posts").delete().eq("id", post_id) is served and deletePost resumes
DeletePostRow(i) ==
    /\ At(i, "deletePost", "post")
    /\ Len(channel) < MaxChannel
    /\ \E failed \in BOOLEAN :
        IF failed
        THEN /\ Finish(i, "Error deleting post", 0, "false")
             /\ UNCHANGED <<dbPosts, channel>>
        ELSE /\ dbPosts' = DeleteRow(dbPosts, calls[i].target)
             /\ channel' =
                  IF HasRow(dbPosts, calls[i].target)
                  THEN Append(channel,
                              Event("posts", "DELETE", RowOf(dbPosts, calls[i].target)))
                  ELSE channel
             /\ Finish(i, "Post deleted", 0, "true")
    /\ UNCHANGED <<dbComments, dbProfiles, session, now, nextId, storage>>

(***************************************************************************)
(* AppProvider: comments.                                                  *)
(***************************************************************************)
\* a row of comments
Comment(id, post_id, content, created_at, user_id, user_name) ==
    [id |-> id, post_id |-> post_id, content |-> content, created_at |-> created_at,
     user_id |-> user_id, user_name |-> user_name]

\* newComment of createComment
NewComment(id, p, content, u, t) == Comment(id, p, content, t, u.id, u.full_name)

\* createComment(post_id, content)
CreateCommentStart(p, content) == StartLoading("createComment", "insert", p, content)

\* insert(newComment).select().single() is served and createComment resumes
CreateCommentInsert(i) ==
    /\ At(i, "createComment", "insert")
    /\ Len(channel) < MaxChannel
    /\ Cardinality(dbComments) < MaxRows
    /\ \E failed \in BOOLEAN :
        IF failed
        THEN /\ Finish(i, "Error creating comment", 0, "threw")
             /\ UNCHANGED <<dbComments, channel, nextId>>
        ELSE LET row == NewComment(nextId, calls[i].target, calls[i].args, calls[i].user,
                                   calls[i].at)
             IN /\ dbComments' = dbComments \cup {row}
                /\ channel' = Append(channel, Event("comments", "INSERT", row))
                /\ nextId' = nextId + 1
                /\ Finish(i, "", row, "returned")
    /\ UNCHANGED <<dbPosts, dbProfiles, session, now, storage>>

\* deleteComment(commentId)
DeleteCommentStart(c) == StartLoading("deleteComment", "select", c, <<>>)

\* the ownership select is served and deleteComment resumes: access denied, or the
\* delete is sent
DeleteCommentSelect(i) ==
    /\ At(i, "deleteComment", "select")
    /\ \E failed \in BOOLEAN :
        IF Denied(dbComments, calls[i].target, calls[i].user, failed)
        THEN Finish(i, "Access denied", 0, "false")
        ELSE /\ Goto(i, "delete", RowOf(dbComments, calls[i].target).user_id, FALSE)
             /\ UNCHANGED <<initPc, initData, isLoading, posts, comments, user, toasts, homeVars>>
    /\ UNCHANGED backendVars

\* from("comments").delete().eq("id", commentId) is served and deleteComment resumes
DeleteCommentRow(i) ==
    /\ At(i, "deleteComment", "delete")
    /\ Len(channel) < MaxChannel
    /\ \E failed \in BOOLEAN :
        IF failed
        THEN /\ Finish(i, "Error deleting comment", 0, "false")
             /\ UNCHANGED <<dbComments, channel>>
        ELSE /\ dbComments' = DeleteRow(dbComments, calls[i].target)
             /\ channel' =
                  IF HasRow(dbComments, calls[i].target)
                  THEN Append(channel,
                              Event("comments", "DELETE", RowOf(dbComments, calls[i].target)))
                  ELSE channel
             /\ Finish(i, "Comment deleted", 0, "true")
    /\ UNCHANGED <<dbPosts, dbProfiles, session, now, nextId, storage>>

(***************************************************************************)
(* The rest of the world: the clock, and the clients of other users, which *)
(* run the same code against the same tables.                              *)
(***************************************************************************)
\* time passes between two new Date()
Tick ==
    /\ now < MaxTime
    /\ now' = now + 1
    /\ UNCHANGED <<dbPosts, dbComments, dbProfiles, channel, session, nextId, storage>>
    /\ UNCHANGED <<providerVars, homeVars>>

\* another user's updatePost on a post of theirs gets its update served
OtherUserUpdatesPost(p, a) ==
    /\ HasRow(dbPosts, p)
    /\ RowOf(dbPosts, p).user_id = OtherId
    /\ EditedPost(RowOf(dbPosts, p), a) # RowOf(dbPosts, p)
    /\ Len(channel) < MaxChannel
    /\ LET Change(r) == EditedPost(r, a)
       IN /\ dbPosts' = UpdateRow(dbPosts, p, PostUpdate(a))
          /\ channel' = Append(channel, Event("posts", "UPDATE", Change(RowOf(dbPosts, p))))
    /\ UNCHANGED <<dbComments, dbProfiles, session, now, nextId, storage>>
    /\ UNCHANGED <<providerVars, homeVars>>

(***************************************************************************)
(* A session in progress: startup has resolved the anonymous user, and the *)
(* mirror holds the stored posts, one of the user and one of another user, *)
(* and the two stored comments.                                            *)
(***************************************************************************)
\* supabase.auth.getSession() without a session
NoSession == [id |-> "null"]

\* the profile startup creates for the anonymous identifier
AnonymousUser ==
    [id |-> LocalId, full_name |-> <<"Green", "Guardian">>, email |-> NoText,
     preferences |-> DefaultPreferences]

OtherUser ==
    [id |-> OtherId, full_name |-> <<"Sam">>, email |-> <<"sam", "b.com">>,
     preferences |-> DefaultPreferences]

OwnPost ==
    Post(1, <<"a">>, <<"b">>, NoText, 0, 1, LocalId, AnonymousUser.full_name, "News", NoId)

OtherPost ==
    Post(2, <<"A", "b">>, <<>>, NoText, 1, 0, OtherId, OtherUser.full_name, NoFlag, NoId)

\* the comments on the user's post: one by the other user, one by the user
OtherComment == Comment(3, 1, <<"b">>, 1, OtherId, OtherUser.full_name)

OwnComment == Comment(4, 1, <<"a">>, 1, LocalId, AnonymousUser.full_name)

\* what another user's edit may write
OtherEdits == {PostArgs(<<"b">>, <<>>, NoText, "Tip", NoId)}

InitSession ==
    /\ dbPosts = {OwnPost, OtherPost}
    /\ dbComments = {OtherComment, OwnComment}
    /\ dbProfiles = {AnonymousUser, OtherUser}
    /\ channel = <<>>
    /\ session = NoSession
    /\ now = 1
    /\ nextId = 5
    /\ storage = LocalId
    /\ initPc = "done"
    /\ initData = <<>>
    /\ isLoading = FALSE
    /\ posts = <<OtherPost, OwnPost>>
    /\ comments = <<OtherComment, OwnComment>>
    /\ user = AnonymousUser
    /\ toasts = {}
    /\ calls = <<>>
    /\ homeMounted = TRUE
    /\ searchQuery = <<>>
    /\ sortBy = "time"
    /\ selectedFlag = NoFlag
    /\ filteredPosts = <<OtherPost, OwnPost>>
    /\ localLoading = FALSE
    /\ runs = <<>>
    /\ sortInput = <<OtherPost, OwnPost>>
    /\ lastInput = "none"
    /\ postPage = NoPostPage
    /\ forms = NoForms

(***************************************************************************)
(* Upvotes: calls of upvotePost from the feed, the change feed, and edits  *)
(* of the other post by its owner.                                         *)
(***************************************************************************)
NextUpvote ==
    \/ \E p \in {OwnPost.id, OtherPost.id} : UpvoteStart(p)
    \/ \E i \in 1..MaxCalls : UpvoteSelect(i)
    \/ \E i \in 1..MaxCalls : UpvoteUpdate(i)
    \/ \E i \in 1..MaxCalls : UpvotePatch(i)
    \/ DeliverEvent
    \/ \E a \in OtherEdits : OtherUserUpdatesPost(OtherPost.id, a)

SpecUpvote == InitSession /\ [][NextUpvote]_vars

\* the calls of upvotePost on post p
UpvoteCalls(p) == {i \in 1..Len(calls) : calls[i].op = "upvotePost" /\ calls[i].target = p}

\* C1: once N calls of upvotePost on a post have all completed with their
\* increment persisted, the stored count is the initial count + N.
C1_UpvotesAddUp ==
    LET p == OwnPost.id
    IN (\A i \in UpvoteCalls(p) :
            calls[i].pc = "done" /\ calls[i].result = "returned" /\ ~calls[i].error)
       => RowOf(dbPosts, p).upvotes = OwnPost.upvotes + Cardinality(UpvoteCalls(p))

(***************************************************************************)
(* Mutations: calls of updatePost, deletePost, createComment and           *)
(* deleteComment on the posts and comments of the session, and the change  *)
(* feed.                                                                   *)
(***************************************************************************)
\* what the user's edit form submits
OwnEdits == {PostArgs(<<"b", " ">>, <<"a">>, NoText, "Question", NoId)}

NextMutation ==
    \/ \E p \in {OwnPost.id, OtherPost.id}, a \in OwnEdits : UpdatePostStart(p, a)
    \/ \E i \in 1..MaxCalls : UpdatePostSelect(i)
    \/ \E i \in 1..MaxCalls : UpdatePostWrite(i)
    \/ \E p \in {OwnPost.id, OtherPost.id} : DeletePostStart(p)
    \/ \E i \in 1..MaxCalls : DeletePostSelect(i)
    \/ \E i \in 1..MaxCalls : DeletePostComments(i)
    \/ \E i \in 1..MaxCalls : DeletePostRow(i)
    \/ CreateCommentStart(OwnPost.id, <<"a">>)
    \/ \E i \in 1..MaxCalls : CreateCommentInsert(i)
    \/ \E c \in {OtherComment.id, OwnComment.id} : DeleteCommentStart(c)
    \/ \E i \in 1..MaxCalls : DeleteCommentSelect(i)
    \/ \E i \in 1..MaxCalls : DeleteCommentRow(i)
    \/ DeliverEvent

SpecMutation == InitSession /\ [][NextMutation]_vars

(***************************************************************************)
(* AppProvider: the identity.  A display name is the sequence of the words *)
(* it is made of (the generated names are the only two-word names here).   *)
(***************************************************************************)
\* a row of user_profiles, and the User kept in memory
Profile(id, full_name, email, preferences) ==
    [id |-> id, full_name |-> full_name, email |-> email, preferences |-> preferences]

\* localStorage.getItem("artemis-eco-user-id") of a browser that stored none
NoStorage == ""

\* what uuidv4() can return in this browser
Uuids == {LocalId, "fresh-uuid"}

\* full_name || email?.split("@")[0] || "EcoUser"
DisplayName(a) ==
    IF a.full_name # NoText THEN a.full_name
    ELSE IF a.email # NoText THEN <<a.email[1]>>
    ELSE <<"EcoUser">>

\* an identifier that is generated whatever is stored
LocalUserIdsFresh(stored) == Uuids

\* localStorage.getItem("artemis-eco-user-id") || uuidv4()
LocalUserIds(stored) == IF stored # NoStorage THEN {stored} ELSE Uuids

\* initializeApp to its second await: getSession() is answered; with a session the
\* profile of its user is looked up, without one the anonymous identifier is read
\* from local storage (or generated), stored, and its profile looked up
InitGetSession ==
    /\ initPc = "getSession"
    /\ IF session # NoSession
       THEN /\ initPc' = "authProfile"
            /\ initData' = session
            /\ UNCHANGED storage
       ELSE /\ initPc' = "anonProfile"
            /\ \E localUserId \in LocalUserIds(storage) :
                  /\ storage' = localUserId
                  /\ initData' = [id |-> localUserId]
    /\ UNCHANGED <<dbPosts, dbComments, dbProfiles, channel, session, now, nextId>>
    /\ UNCHANGED <<isLoading, posts, comments, user, toasts, calls, homeVars>>

\* the lookup of the profile is served and initializeApp resumes: the stored
\* profile becomes the user, or (no row, or an error) a new one is built and its
\* insert is sent.  newUser is the profile to build.
InitProfile(pc, newUser) ==
    /\ initPc = pc
    /\ CanRunEffect(searchQuery)
    /\ \E failed \in BOOLEAN :
        IF failed \/ ~HasRow(dbProfiles, initData.id)
        THEN /\ initPc' = "insertProfile"
             /\ initData' = newUser
             /\ UNCHANGED <<user, homeVars>>
        ELSE /\ initPc' = "fetchPosts"
             /\ initData' = <<>>
             /\ user' = RowOf(dbProfiles, initData.id)
             /\ ProviderRendered(posts)
    /\ UNCHANGED backendVars
    /\ UNCHANGED <<isLoading, posts, comments, toasts, calls>>

\* the authenticated branch: the session's name or the head of its email
InitAuthProfile ==
    InitProfile("authProfile",
                Profile(initData.id, DisplayName(initData), NoText, DefaultPreferences))

\* the anonymous branch: a generated name
InitAnonProfile ==
    \E name \in RandomUsernames :
        InitProfile("anonProfile", Profile(initData.id, name, NoText, DefaultPreferences))

\* insert(newUser) is served (its outcome is not looked at) and initializeApp
\* resumes: setUser(newUser), then fetchPosts is called
InitInsertProfile ==
    /\ initPc = "insertProfile"
    /\ CanRunEffect(searchQuery)
    /\ \E failed \in BOOLEAN :
        dbProfiles' = IF failed \/ HasRow(dbProfiles, initData.id) THEN dbProfiles
                      ELSE dbProfiles \cup {initData}
    /\ user' = initData
    /\ initPc' = "fetchPosts"
    /\ initData' = <<>>
    /\ ProviderRendered(posts)
    /\ UNCHANGED <<dbPosts, dbComments, channel, session, now, nextId, storage>>
    /\ UNCHANGED <<isLoading, posts, comments, toasts, calls>>

\* updatedUser of handleAccountCreation
AccountUpdate(a) ==
    IF a.email # NoText THEN [full_name |-> DisplayName(a), email |-> a.email]
    ELSE [full_name |-> DisplayName(a)]

\* the auth provider signs the session in and the listener handles SIGNED_IN:
\* handleAccountCreation runs to its await, or returns when no user is set or the
\* user does not pass for anonymous (no email, and a name equal to a newly
\* generated one)
SignedIn(a) ==
    /\ Len(calls) < MaxCalls
    /\ session' = a
    /\ \E wasAnonymous \in {user # NoUser /\ user.email = NoText /\ user.full_name = roll :
                                roll \in RandomUsernames} :
        calls' = Append(calls,
                        IF wasAnonymous
                        THEN [Call("handleAccountCreation", "update", a.id, a)
                              EXCEPT !.data = AccountUpdate(a)]
                        ELSE [Call("handleAccountCreation", "done", a.id, a)
                              EXCEPT !.result = "returned"])
    /\ UNCHANGED <<dbPosts, dbComments, dbProfiles, channel, now, nextId, storage>>
    /\ UNCHANGED <<initPc, initData, isLoading, posts, comments, user, toasts, homeVars>>

\* a merge that also takes over the identifier of the signed-in account
PromotedUserTakingId(prev, a, updatedUser) ==
    [Spread(prev, updatedUser) EXCEPT !.id = a.id]

\* setUser((prev) => ({...prev, ...updatedUser}))
PromotedUser(prev, a, updatedUser) == Spread(prev, updatedUser)

\* update(updatedUser).eq("id", userData.id) is served and handleAccountCreation
\* resumes: without an error the update is merged into the user
SignedInUpdate(i) ==
    /\ At(i, "handleAccountCreation", "update")
    /\ CanRunEffect(searchQuery)
    /\ \E failed \in BOOLEAN :
        IF failed
        THEN /\ calls' = [calls EXCEPT ![i].pc = "done", ![i].error = TRUE,
                                       ![i].result = "returned"]
             /\ UNCHANGED <<dbProfiles, user, homeVars>>
        ELSE /\ dbProfiles' = UpdateRow(dbProfiles, calls[i].args.id, calls[i].data)
             /\ user' = PromotedUser(user, calls[i].args, calls[i].data)
             /\ Return(i, calls[i].data, "returned")
             /\ ProviderRendered(posts)
    /\ UNCHANGED <<dbPosts, dbComments, channel, session, now, nextId, storage>>
    /\ UNCHANGED <<initPc, initData, isLoading, posts, comments, toasts>>

(***************************************************************************)
(* AppProvider: the preferences.                                           *)
(***************************************************************************)
\* setUserPreferences(preferences) to its await: the guard on user, the merge into
\* the preferences of the render, and the update is sent
SetUserPreferences(partial) ==
    /\ Len(calls) < MaxCalls
    /\ calls' = Append(calls,
                       IF user = NoUser THEN Threw("setUserPreferences", user.id, partial)
                       ELSE [Call("setUserPreferences", "update", user.id, partial)
                             EXCEPT !.data = Spread(user.preferences, partial)])
    /\ UNCHANGED <<backendVars, homeVars>>
    /\ UNCHANGED <<initPc, initData, isLoading, posts, comments, user, toasts>>

\* a switch between light and dark only
NextColorModeTwoWay(currentMode) ==
    IF currentMode = "light" THEN "dark" ELSE "light"

\* newMode of toggleColorMode
NextColorMode(currentMode) ==
    IF currentMode = "light" THEN "dark"
    ELSE IF currentMode = "dark" THEN "system"
    ELSE "light"

\* toggleColorMode: the guard on user, then setUserPreferences({colorScheme: newMode})
ToggleColorMode ==
    IF user = NoUser
    THEN /\ Len(calls) < MaxCalls
         /\ calls' = Append(calls, Threw("toggleColorMode", user.id, <<>>))
         /\ UNCHANGED <<backendVars, homeVars>>
         /\ UNCHANGED <<initPc, initData, isLoading, posts, comments, user, toasts>>
    ELSE SetUserPreferences([colorScheme |-> NextColorMode(user.preferences.colorScheme)])

\* setUser((prev) => prev ? {...prev, preferences: updatedPreferences} : null)
WithPreferences(prev, updatedPreferences) ==
    IF prev = NoUser THEN NoUser ELSE [prev EXCEPT !.preferences = updatedPreferences]

\* update({preferences: updatedPreferences}).eq("id", user.id) is served and
\* setUserPreferences resumes: a toast, or the merged preferences are set
SetUserPreferencesUpdate(i) ==
    /\ At(i, "setUserPreferences", "update")
    /\ CanRunEffect(searchQuery)
    /\ \E failed \in BOOLEAN :
        IF failed
        THEN /\ toasts' = toasts \cup {"Error updating preferences"}
             /\ calls' = [calls EXCEPT ![i].pc = "done", ![i].error = TRUE,
                                       ![i].result = "returned"]
             /\ UNCHANGED <<dbProfiles, user, homeVars>>
        ELSE /\ dbProfiles' = UpdateRow(dbProfiles, calls[i].user.id,
                                         [preferences |-> calls[i].data])
             /\ user' = WithPreferences(user, calls[i].data)
             /\ Return(i, calls[i].data, "returned")
             /\ ProviderRendered(posts)
             /\ UNCHANGED toasts
    /\ UNCHANGED <<dbPosts, dbComments, channel, session, now, nextId, storage>>
    /\ UNCHANGED <<initPc, initData, isLoading, posts, comments>>

(***************************************************************************)
(* AppProvider: the end of initializeApp, after the user is resolved:      *)
(* await fetchPosts(); await fetchComments(); setIsLoading(false).  The    *)
(* realtime subscriptions are set up by an effect of the first render, so  *)
(* changes are delivered while the two fetches are in flight.              *)
(***************************************************************************)
\* from("posts").select("*").order("created_at", {ascending: false}) is served
FetchPostsServe ==
    /\ initPc = "fetchPosts"
    /\ \E failed \in BOOLEAN :
        IF failed
        THEN initData' = [error |-> TRUE, data |-> <<>>]
        ELSE \E rows \in OrderedDesc(dbPosts) : initData' = [error |-> FALSE, data |-> rows]
    /\ initPc' = "fetchedPosts"
    /\ UNCHANGED <<backendVars, homeVars>>
    /\ UNCHANGED <<isLoading, posts, comments, user, toasts, calls>>

\* a fetchPosts that resumes from an error with an empty mirror
FetchPostsResumeEmptying ==
    /\ initPc = "fetchedPosts"
    /\ CanRunEffect(searchQuery)
    /\ IF initData.error
       THEN /\ toasts' = toasts \cup {"Error fetching posts"}
            /\ posts' = <<>>
       ELSE /\ posts' = initData.data
            /\ UNCHANGED toasts
    /\ initPc' = "fetchComments"
    /\ initData' = <<>>
    /\ ProviderRendered(posts')
    /\ UNCHANGED backendVars
    /\ UNCHANGED <<isLoading, comments, user, calls>>

\* fetchPosts resumes: a toast and the mirror as it was, or setPosts(data); then
\* initializeApp calls fetchComments
FetchPostsResume ==
    /\ initPc = "fetchedPosts"
    /\ CanRunEffect(searchQuery)
    /\ IF initData.error
       THEN /\ toasts' = toasts \cup {"Error fetching posts"}
            /\ UNCHANGED posts
       ELSE /\ posts' = initData.data
            /\ UNCHANGED toasts
    /\ initPc' = "fetchComments"
    /\ initData' = <<>>
    /\ ProviderRendered(posts')
    /\ UNCHANGED backendVars
    /\ UNCHANGED <<isLoading, comments, user, calls>>

\* from("comments").select("*").order("created_at", {ascending: true}) is served
FetchCommentsServe ==
    /\ initPc = "fetchComments"
    /\ \E failed \in BOOLEAN :
        IF failed
        THEN initData' = [error |-> TRUE, data |-> <<>>]
        ELSE \E rows \in OrderedAsc(dbComments) : initData' = [error |-> FALSE, data |-> rows]
    /\ initPc' = "fetchedComments"
    /\ UNCHANGED <<backendVars, homeVars>>
    /\ UNCHANGED <<isLoading, posts, comments, user, toasts, calls>>

\* fetchComments resumes: a toast, or setComments(data); then initializeApp ends
\* with setIsLoading(false)
FetchCommentsResume ==
    /\ initPc = "fetchedComments"
    /\ CanRunEffect(searchQuery)
    /\ IF initData.error
       THEN /\ toasts' = toasts \cup {"Error fetching comments"}
            /\ UNCHANGED comments
       ELSE /\ comments' = initData.data
            /\ UNCHANGED toasts
    /\ initPc' = "done"
    /\ initData' = <<>>
    /\ isLoading' = FALSE
    /\ ProviderRendered(posts)
    /\ UNCHANGED backendVars
    /\ UNCHANGED <<posts, user, calls>>

\* another user's createPost gets its insert served
OtherUserCreatesPost(a) ==
    /\ Len(channel) < MaxChannel
    /\ Cardinality(dbPosts) < MaxRows
    /\ LET row == NewPost(nextId, a, OtherUser, now)
       IN /\ dbPosts' = dbPosts \cup {row}
          /\ channel' = Append(channel, Event("posts", "INSERT", row))
          /\ nextId' = nextId + 1
    /\ UNCHANGED <<dbComments, dbProfiles, session, now, storage>>
    /\ UNCHANGED <<providerVars, homeVars>>

(***************************************************************************)
(* The collection store: startup has resolved the anonymous user and has   *)
(* just called fetchPosts; the backend stores the other user's post.       *)
(* Posts are created while the fetches are in flight and afterwards.       *)
(***************************************************************************)
\* what createPost is called with, here and by the other user
NewPosts == {PostArgs(<<"a">>, <<>>, NoText, "News", NoId)}

InitStore ==
    /\ dbPosts = {OtherPost}
    /\ dbComments = {}
    /\ dbProfiles = {AnonymousUser, OtherUser}
    /\ channel = <<>>
    /\ session = NoSession
    /\ now = 1
    /\ nextId = 3
    /\ storage = LocalId
    /\ initPc = "fetchPosts"
    /\ initData = <<>>
    /\ isLoading = TRUE
    /\ posts = <<>>
    /\ comments = <<>>
    /\ user = AnonymousUser
    /\ toasts = {}
    /\ calls = <<>>
    /\ homeMounted = TRUE
    /\ searchQuery = <<>>
    /\ sortBy = "time"
    /\ selectedFlag = NoFlag
    /\ filteredPosts = <<>>
    /\ localLoading = FALSE
    /\ runs = <<>>
    /\ sortInput = <<>>
    /\ lastInput = "none"
    /\ postPage = NoPostPage
    /\ forms = NoForms

NextStore ==
    \/ FetchPostsServe
    \/ FetchPostsResume
    \/ FetchCommentsServe
    \/ FetchCommentsResume
    \/ DeliverEvent
    \/ \E a \in NewPosts : CreatePostStart(a)
    \/ \E i \in 1..MaxCalls : CreatePostInsert(i)
    \/ \E a \in NewPosts : OtherUserCreatesPost(a)
    \/ Tick

SpecStore == InitStore /\ [][NextStore]_vars

(***************************************************************************)
(* The derived view as a function of a render's values: the page is        *)
(* mounted on a mirror, a query, a flag and a sort mode drawn from the     *)
(* sets below, and its first render runs applyFilters on them.  (The page  *)
(* itself starts from the empty query, no flag and recency, and none of    *)
(* its controls sets the flag.)                                            *)
(***************************************************************************)
ThirdPost ==
    Post(5, <<"b", " ">>, <<"a", "B">>, NoText, 1, 1, OtherId, OtherUser.full_name, "News", NoId)

FilterPool == {OwnPost, OtherPost, ThirdPost}

FilterQueries == {<<>>, <<" ">>, <<"a">>, <<"a", "b">>, <<"B", " ">>}

FilterFlags == {NoFlag, "News", "Tip"}

InitFilters ==
    /\ dbPosts = FilterPool
    /\ dbComments = {OtherComment, OwnComment}
    /\ dbProfiles = {AnonymousUser, OtherUser}
    /\ channel = <<>>
    /\ session = NoSession
    /\ now = 1
    /\ nextId = 6
    /\ storage = LocalId
    /\ initPc = "done"
    /\ initData = <<>>
    /\ isLoading = FALSE
    /\ posts \in Orderings(FilterPool)
    /\ comments = <<OtherComment, OwnComment>>
    /\ user = AnonymousUser
    /\ toasts = {}
    /\ calls = <<>>
    /\ homeMounted = FALSE
    /\ searchQuery \in FilterQueries
    /\ sortBy \in {"time", "upvotes"}
    /\ selectedFlag \in FilterFlags
    /\ filteredPosts = <<>>
    /\ localLoading = FALSE
    /\ runs = <<>>
    /\ sortInput = <<>>
    /\ lastInput = "none"
    /\ postPage = NoPostPage
    /\ forms = NoForms

NextFilters ==
    \/ MountHome
    \/ \E k \in 1..MaxRuns : ApplyFiltersResolve(k)

SpecFilters == InitFilters /\ [][NextFilters]_vars

(***************************************************************************)
(* The home page in a session: typing a query, choosing the sort mode,     *)
(* submitting the search form, resetting the filters, while the other      *)
(* user's post is edited and the change is delivered.                      *)
(***************************************************************************)
ViewQueries == {<<>>, <<"a">>}

NextView ==
    \/ \E q \in ViewQueries : SetSearchQuery(q)
    \/ \E s \in {"time", "upvotes"} : SetSortBy(s)
    \/ \E k \in 1..MaxRuns : ApplyFiltersResolve(k)
    \/ HandleSearch
    \/ \E k \in 1..MaxRuns : HandleSearchResolve(k)
    \/ ResetFilters
    \/ \E k \in 1..MaxRuns : ResetFiltersResolve(k)
    \/ \E a \in OtherEdits : OtherUserUpdatesPost(OtherPost.id, a)
    \/ DeliverEvent

SpecView == InitSession /\ [][NextView]_vars

(***************************************************************************)
(* The identity from construction: the provider is mounted, initializeApp  *)
(* has called getSession(); the browser may hold a session and an          *)
(* identifier from an earlier visit, the backend the profiles of earlier   *)
(* visits.                                                                 *)
(***************************************************************************)
\* the session.user of a session: id, email and user_metadata.full_name
AuthSessions ==
    {[id |-> AuthId, email |-> <<"a", "b.com">>, full_name |-> <<"Alex">>],
     [id |-> AuthId, email |-> NoText, full_name |-> NoText]}

\* the profile an earlier authenticated visit left
AuthUser == Profile(AuthId, <<"a">>, NoText, DefaultPreferences)

\* handlePreferenceChange({showContentInFeed: checked})
PreferenceChanges == {[showContentInFeed |-> checked] : checked \in BOOLEAN}

InitIdentity ==
    /\ dbPosts = {OtherPost}
    /\ dbComments = {}
    /\ dbProfiles \in {{}, {AnonymousUser, AuthUser}}
    /\ channel = <<>>
    /\ session \in {NoSession} \cup AuthSessions
    /\ now = 1
    /\ nextId = 3
    /\ storage \in {NoStorage, LocalId}
    /\ initPc = "getSession"
    /\ initData = <<>>
    /\ isLoading = TRUE
    /\ posts = <<>>
    /\ comments = <<>>
    /\ user = NoUser
    /\ toasts = {}
    /\ calls = <<>>
    /\ homeMounted = TRUE
    /\ searchQuery = <<>>
    /\ sortBy = "time"
    /\ selectedFlag = NoFlag
    /\ filteredPosts = <<>>
    /\ localLoading = FALSE
    /\ runs = <<>>
    /\ sortInput = <<>>
    /\ lastInput = "none"
    /\ postPage = NoPostPage
    /\ forms = NoForms

NextIdentity ==
    \/ InitGetSession
    \/ InitAuthProfile
    \/ InitAnonProfile
    \/ InitInsertProfile
    \/ Len(calls) < MaxIdentityCalls /\ \E a \in AuthSessions : SignedIn(a)
    \/ \E i \in 1..MaxCalls : SignedInUpdate(i)
    \/ Len(calls) < MaxIdentityCalls /\ \E partial \in PreferenceChanges : SetUserPreferences(partial)
    \/ Len(calls) < MaxIdentityCalls /\ ToggleColorMode
    \/ \E i \in 1..MaxCalls : SetUserPreferencesUpdate(i)

SpecIdentity == InitIdentity /\ [][NextIdentity]_vars

(***************************************************************************)
(* The claims.                                                             *)
(***************************************************************************)
\* a call of updatePost, deletePost or deleteComment whose target is stored
\* with an owner other than the caller
Foreign(c) ==
    /\ c.op \in {"updatePost", "deletePost", "deleteComment"}
    /\ c.user # NoUser
    /\ LET table == IF c.op = "deleteComment" THEN dbComments ELSE dbPosts
       IN HasRow(table, c.target) /\ RowOf(table, c.target).user_id # c.user.id

\* C2: every step of an updatePost, deletePost or deleteComment call by U on an
\* entity owned by V # U ends the call with false (access denied) and leaves the
\* stored posts and comments as they are.
C2_OwnershipEnforced ==
    [][\A i \in 1..Len(calls) :
          (Foreign(calls[i]) /\ calls'[i] # calls[i])
          => /\ calls'[i].pc = "done"
             /\ calls'[i].result = "false"
             /\ "Access denied" \in toasts'
             /\ UNCHANGED <<dbPosts, dbComments>>]_vars

\* each of the three operations has been refused on an entity of the other user,
\* which is still stored as it was
C2_Witness ==
    /\ \A op \in {"updatePost", "deletePost", "deleteComment"} :
          \E i \in 1..Len(calls) :
              /\ calls[i].op = op
              /\ calls[i].target \in {OtherPost.id, OtherComment.id}
              /\ calls[i].pc = "done"
              /\ calls[i].result = "false"
    /\ OtherPost \in dbPosts
    /\ OtherComment \in dbComments

\* C3: when deletePost returns true, the post is not stored any more and no
\* stored comment refers to it.
C3_DeleteLeavesNoComment ==
    [][\A i \in 1..Len(calls) :
          (/\ calls[i].op = "deletePost"
           /\ calls[i].pc # "done"
           /\ calls'[i].pc = "done"
           /\ calls'[i].result = "true")
          => /\ ~HasRow(dbPosts', calls[i].target)
             /\ CommentsOf(dbComments', calls[i].target) = {}]_vars

\* how many entries of a mirror carry the id
Occurrences(mirror, id) == Cardinality({k \in 1..Len(mirror) : mirror[k].id = id})

\* C4: delivering an INSERT for a post or comment leaves exactly one entry with
\* that id in the mirror, also when the id was in the mirror already.
C4_InsertCreatesNoDuplicate ==
    [][(channel # <<>> /\ channel' = Tail(channel) /\ Head(channel).eventType = "INSERT")
       => LET e == Head(channel)
          IN Occurrences(IF e.table = "posts" THEN posts' ELSE comments', e.row.id) = 1]_vars

\* nothing is in flight: startup is over, every call has returned, every change
\* has been delivered and no applyFilters run is pending
Quiescent ==
    /\ initPc = "done"
    /\ channel = <<>>
    /\ runs = <<>>
    /\ \A i \in 1..Len(calls) : calls[i].pc = "done"

\* C8: once nothing is in flight, a post that createPost returned is in the mirror
\* exactly once, owned by the active user with no upvotes, and heads the feed when
\* no query or flag is set and it is the newest stored post.
C8_CreatedPostAppearsOnce ==
    Quiescent =>
        \A i \in 1..Len(calls) :
            (calls[i].op = "createPost" /\ calls[i].result = "returned")
            => LET row == calls[i].data
               IN /\ Occurrences(posts, row.id) = 1
                  /\ \A k \in 1..Len(posts) :
                        posts[k].id = row.id
                        => posts[k].user_id = user.id /\ posts[k].upvotes = 0
                  /\ (/\ IsBlank(searchQuery)
                      /\ selectedFlag = NoFlag
                      /\ sortBy = "time"
                      /\ \A r \in dbPosts : r.id # row.id => r.created_at < row.created_at)
                     => (filteredPosts # <<>> /\ filteredPosts[1].id = row.id)

\* the first render's applyFilters run has set the feed
Filtered == homeMounted /\ runs = <<>>

\* the stored posts the search for q selects that carry flag f
SearchAndFlag(q, f) == {r \in dbPosts : (ILike(r.title, q) \/ ILike(r.content, q)) /\ r.flag = f}

Descending(out, by) ==
    \A i \in 1..(Len(out) - 1) :
        IF by = "time" THEN out[i].created_at >= out[i + 1].created_at
        ELSE out[i].upvotes >= out[i + 1].upvotes

\* out lists the entries of in, and in upvotes mode entries with equal counts are
\* in the order they have in in
Rearranges(out, in, by) ==
    /\ Len(out) = Len(in)
    /\ \E pi \in Orderings(1..Len(in)) :
          /\ \A i \in 1..Len(out) : out[i] = in[pi[i]]
          /\ by = "upvotes"
             => \A i, j \in 1..Len(out) :
                   (i < j /\ out[i].upvotes = out[j].upvotes) => pi[i] < pi[j]

\* C7: the feed applyFilters sets is its input (the posts left by the search and
\* the flag filter) in descending creation time in recency mode and in descending
\* upvote count in upvotes mode, posts with equal counts in their input order.
C7_FeedIsStablySorted ==
    Filtered => Descending(filteredPosts, sortBy) /\ Rearranges(filteredPosts, sortInput, sortBy)

\* in upvotes mode, two posts with equal counts are shown oldest first because
\* that is how they came in, with a post of another count in the feed as well
C7_Witness ==
    /\ Filtered
    /\ sortBy = "upvotes"
    /\ Len(filteredPosts) = Cardinality(FilterPool)
    /\ filteredPosts # sortInput
    /\ \E i \in 1..(Len(filteredPosts) - 1) :
          /\ filteredPosts[i].upvotes = filteredPosts[i + 1].upvotes
          /\ filteredPosts[i].created_at < filteredPosts[i + 1].created_at

\* C6: after resetFilters, once nothing is outstanding (and no request failed), the
\* query is empty, no flag is set, the mode is recency and the feed shows every
\* stored post once, newest first.
C6_ResetRestoresFeed ==
    (/\ lastInput = "reset"
     /\ runs = <<>>
     /\ channel = <<>>
     /\ toasts = {})
    => /\ searchQuery = <<>>
       /\ selectedFlag = NoFlag
       /\ sortBy = "time"
       /\ Range(filteredPosts) = dbPosts
       /\ Len(filteredPosts) = Cardinality(dbPosts)
       /\ Descending(filteredPosts, "time")

\* the active identity is anonymous: no email, a generated display name
IsAnonymous(u) == u # NoUser /\ u.email = NoText /\ u.full_name \in RandomUsernames

\* call i is the handling of a sign-in event that ends in this step without a
\* failed request
SignInHandled(i) ==
    /\ i \in 1..Len(calls')
    /\ calls'[i].op = "handleAccountCreation"
    /\ calls'[i].pc = "done"
    /\ ~calls'[i].error
    /\ (i \in 1..Len(calls) => calls[i].pc # "done")

\* record r with the display name and email of the signed-in account a
SignedInAs(r, a) ==
    [r EXCEPT !.full_name = DisplayName(a),
              !.email = IF a.email # NoText THEN a.email ELSE r.email]

\* C9: when the handling of a sign-in event ends while the active identity is
\* anonymous and has a stored profile, the in-memory user and the stored profile
\* of that identity are the ones before with the display name and email of the
\* signed-in account, the id and every other field unchanged.
C9_SignInPromotesAnonymous ==
    [][\A i \in 1..MaxCalls :
          (SignInHandled(i) /\ IsAnonymous(user) /\ HasRow(dbProfiles, user.id))
              => /\ user' = SignedInAs(user, calls'[i].args)
                 /\ HasRow(dbProfiles', user.id)
                 /\ RowOf(dbProfiles', user.id)
                        = SignedInAs(RowOf(dbProfiles, user.id), calls'[i].args)]_vars

\* C10: once a user is set, every step keeps a user set and keeps its id.
C10_UserIdNeverChanges ==
    [][user # NoUser => (user' # NoUser /\ user'.id = user.id)]_vars

\* a sign-in of an anonymous user was merged into the user and a change of
\* preferences was applied, and the user still has the anonymous identifier
C10_Witness ==
    /\ user # NoUser
    /\ user.id = storage
    /\ user.email # NoText
    /\ user.preferences # DefaultPreferences
    /\ \E i \in 1..Len(calls) :
          /\ calls[i].op = "handleAccountCreation"
          /\ calls[i].pc = "done"
          /\ calls[i].user # NoUser
          /\ calls[i].user.id = user.id
          /\ calls[i].user.email = NoText
    /\ \E j \in 1..Len(calls) :
          /\ calls[j].op = "setUserPreferences"
          /\ calls[j].pc = "done"
          /\ ~calls[j].error

\* C11: no step lowers the stored upvote count of a post that stays stored.
C11_UpvotesNeverDecrease ==
    [][\A r \in dbPosts :
          HasRow(dbPosts', r.id) => RowOf(dbPosts', r.id).upvotes >= r.upvotes]_vars

\* C12: a call whose backend write failed takes no step that changes the
\* in-memory posts, comments or user, and has notified the user when it ends.
C12_FailedWriteChangesNothing ==
    [][\A i \in 1..Len(calls) :
          (calls[i].error /\ calls'[i] # calls[i])
          => /\ UNCHANGED <<posts, comments, user>>
             /\ calls'[i].pc = "done" => toasts' # {}]_vars

(***************************************************************************)
(* The gateway before an identity is active: the provider is mounted with  *)
(* user = null while initializeApp resolves the session's profile, and the *)
(* functions of the context can be called already.  The session is an      *)
(* authenticated one, so every stored post and comment belongs to others.  *)
(***************************************************************************)
InitGuest ==
    /\ dbPosts = {OwnPost, OtherPost}
    /\ dbComments = {OtherComment, OwnComment}
    /\ dbProfiles \in {{AnonymousUser, OtherUser}, {AnonymousUser, OtherUser, AuthUser}}
    /\ channel = <<>>
    /\ session \in AuthSessions
    /\ now = 1
    /\ nextId = 5
    /\ storage = LocalId
    /\ initPc = "getSession"
    /\ initData = <<>>
    /\ isLoading = TRUE
    /\ posts = <<>>
    /\ comments = <<>>
    /\ user = NoUser
    /\ toasts = {}
    /\ calls = <<>>
    /\ homeMounted = TRUE
    /\ searchQuery = <<>>
    /\ sortBy = "time"
    /\ selectedFlag = NoFlag
    /\ filteredPosts = <<>>
    /\ localLoading = FALSE
    /\ runs = <<>>
    /\ sortInput = <<>>
    /\ lastInput = "none"
    /\ postPage = NoPostPage
    /\ forms = NoForms

NextGuest ==
    \/ InitGetSession
    \/ InitAuthProfile
    \/ InitInsertProfile
    \/ \E a \in NewPosts : CreatePostStart(a)
    \/ \E i \in 1..MaxCalls : CreatePostInsert(i)
    \/ \E a \in OwnEdits : UpdatePostStart(OwnPost.id, a)
    \/ \E i \in 1..MaxCalls : UpdatePostSelect(i)
    \/ DeletePostStart(OwnPost.id)
    \/ \E i \in 1..MaxCalls : DeletePostSelect(i)
    \/ UpvoteStart(OwnPost.id)
    \/ \E i \in 1..MaxCalls : UpvoteSelect(i)
    \/ \E i \in 1..MaxCalls : UpvoteUpdate(i)
    \/ \E i \in 1..MaxCalls : UpvotePatch(i)
    \/ CreateCommentStart(OwnPost.id, <<"a">>)
    \/ \E i \in 1..MaxCalls : CreateCommentInsert(i)
    \/ DeleteCommentStart(OwnComment.id)
    \/ \E i \in 1..MaxCalls : DeleteCommentSelect(i)
    \/ DeliverEvent

SpecGuest == InitGuest /\ [][NextGuest]_vars

\* the operations of the gateway that change posts and comments
GatewayOps ==
    {"createPost", "updatePost", "deletePost", "upvotePost", "createComment", "deleteComment"}

\* C13: a call of createPost, updatePost, deletePost, upvotePost, createComment or
\* deleteComment made while no user is set ends at once by throwing, with no
\* request pending and the backend untouched, and stays that way.
C13_NoUserNoRequest ==
    [][/\ (Len(calls') > Len(calls) /\ user = NoUser /\ calls'[Len(calls')].op \in GatewayOps)
          => /\ calls'[Len(calls')].pc = "done"
             /\ calls'[Len(calls')].result = "threw"
             /\ UNCHANGED backendVars
       /\ \A i \in 1..Len(calls) : calls[i].result = "threw" => calls'[i] = calls[i]]_vars

\* createPost, upvotePost and deleteComment were called before startup set a user
\* and each threw; nothing was written
C13_Witness ==
    /\ user = NoUser
    /\ \A op \in {"createPost", "upvotePost", "deleteComment"} :
          \E i \in 1..Len(calls) : calls[i].op = op /\ calls[i].result = "threw"
    /\ dbPosts = {OwnPost, OtherPost}
    /\ dbComments = {OtherComment, OwnComment}

(***************************************************************************)
(* Upvotes of a post that is being deleted: the user's own post is upvoted *)
(* and deleted from the same session.                                      *)
(***************************************************************************)
NextGone ==
    \/ UpvoteStart(OwnPost.id)
    \/ \E i \in 1..MaxCalls : UpvoteSelect(i)
    \/ \E i \in 1..MaxCalls : UpvoteUpdate(i)
    \/ \E i \in 1..MaxCalls : UpvotePatch(i)
    \/ DeletePostStart(OwnPost.id)
    \/ \E i \in 1..MaxCalls : DeletePostSelect(i)
    \/ \E i \in 1..MaxCalls : DeletePostComments(i)
    \/ \E i \in 1..MaxCalls : DeletePostRow(i)
    \/ DeliverEvent

SpecGone == InitSession /\ [][NextGone]_vars

\* the upvote counts the mirror shows, by position
MirrorUpvotes(mirror) == [k \in 1..Len(mirror) |-> <<mirror[k].id, mirror[k].upvotes>>]

\* C14: when the select of an upvotePost call is answered for a post that is not
\* stored, the call ends with "Post not found", writes nothing to the backend and
\* leaves the upvote counts of the mirror as they are; it takes no step afterwards.
C14_UpvoteOfMissingPost ==
    [][\A i \in 1..Len(calls) :
          /\ (/\ calls[i].op = "upvotePost"
              /\ calls[i].pc = "select"
              /\ ~HasRow(dbPosts, calls[i].target)
              /\ calls'[i] # calls[i])
             => /\ calls'[i].pc = "done"
                /\ calls'[i].result = "notFound"
                /\ "Post not found" \in toasts'
                /\ UNCHANGED <<dbPosts, dbComments, dbProfiles, channel>>
                /\ MirrorUpvotes(posts') = MirrorUpvotes(posts)
          /\ calls[i].result = "notFound" => calls'[i] = calls[i]]_vars

\* an upvote of the deleted post, its select answered without a failure, has
\* ended with NotFound while the mirror still shows the post with the count it had
C14_Witness ==
    /\ ~HasRow(dbPosts, OwnPost.id)
    /\ \E i \in 1..Len(calls) :
          /\ calls[i].op = "upvotePost"
          /\ calls[i].target = OwnPost.id
          /\ calls[i].result = "notFound"
          /\ ~calls[i].error
    /\ \E k \in 1..Len(posts) : posts[k] = OwnPost

\* C15: after a single upvotePost call has returned with its update stored, and
\* the change feed has been delivered, the mirror shows the stored upvote count of
\* the post.
C15_MirrorMatchesStoredCount ==
    (/\ Len(calls) = 1
     /\ calls[1].op = "upvotePost"
     /\ calls[1].result = "returned"
     /\ ~calls[1].error
     /\ channel = <<>>)
    => \A k \in 1..Len(posts) :
          posts[k].id = calls[1].target
          => posts[k].upvotes = RowOf(dbPosts, calls[1].target).upvotes

\* call i is a setUserPreferences call whose update is answered in this step
PreferencesAnswered(i) ==
    /\ calls[i].op = "setUserPreferences"
    /\ calls[i].pc = "update"
    /\ calls'[i].pc = "done"

\* the preferences call i was made with, the fields of its argument overridden
MergedPreferences(i) == Spread(calls[i].user.preferences, calls[i].args)

\* C16: when the update of a setUserPreferences call succeeds, the stored profile
\* of the user and the in-memory user hold the preferences the call was made with,
\* the given fields overridden, and nothing else of the user changes; when it
\* fails, the in-memory user stays as it was and a notification is raised.
C16_PreferencesMerged ==
    [][\A i \in 1..Len(calls) :
          PreferencesAnswered(i)
          => IF calls'[i].error
             THEN user' = user /\ "Error updating preferences" \in toasts'
             ELSE /\ user' = [user EXCEPT !.preferences = MergedPreferences(i)]
                  /\ HasRow(dbProfiles', user.id)
                  /\ RowOf(dbProfiles', user.id).preferences = MergedPreferences(i)]_vars

(***************************************************************************)
(* The preferences of a session: the user is set and its profile stored,   *)
(* with any colour scheme and content preview setting.                     *)
(***************************************************************************)
ColorSchemes == {"light", "dark", "system"}

\* the user u with the preferences a session can have stored
UsersWith(u) ==
    {[u EXCEPT !.preferences = [showImagesInFeed |-> TRUE, showContentInFeed |-> c,
                                colorScheme |-> m]] :
        c \in BOOLEAN, m \in ColorSchemes}

InitPreferences ==
    /\ user \in UsersWith(AnonymousUser)
    /\ dbProfiles = {user, OtherUser}
    /\ dbPosts = {OwnPost, OtherPost}
    /\ dbComments = {OtherComment, OwnComment}
    /\ channel = <<>>
    /\ session = NoSession
    /\ now = 1
    /\ nextId = 5
    /\ storage = LocalId
    /\ initPc = "done"
    /\ initData = <<>>
    /\ isLoading = FALSE
    /\ posts = <<OtherPost, OwnPost>>
    /\ comments = <<OtherComment, OwnComment>>
    /\ toasts = {}
    /\ calls = <<>>
    /\ homeMounted = TRUE
    /\ searchQuery = <<>>
    /\ sortBy = "time"
    /\ selectedFlag = NoFlag
    /\ filteredPosts = <<OtherPost, OwnPost>>
    /\ localLoading = FALSE
    /\ runs = <<>>
    /\ sortInput = <<OtherPost, OwnPost>>
    /\ lastInput = "none"
    /\ postPage = NoPostPage
    /\ forms = NoForms

NextPreferences ==
    \/ \E partial \in PreferenceChanges : SetUserPreferences(partial)
    \/ ToggleColorMode
    \/ \E i \in 1..MaxCalls : SetUserPreferencesUpdate(i)

SpecPreferences == InitPreferences /\ [][NextPreferences]_vars

\* call i is a toggleColorMode whose update succeeded
Toggled(i) ==
    /\ calls[i].op = "setUserPreferences"
    /\ DOMAIN calls[i].args = {"colorScheme"}
    /\ calls[i].pc = "done"
    /\ ~calls[i].error

\* C17: a toggle asks for dark when the scheme is light, for system when it is
\* dark and for light when it is system; and after three successful toggles, each
\* made after the one before had completed, the in-memory and the stored
\* preferences are the ones the first toggle started from.
C17_ThreeTogglesReturn ==
    /\ \A i \in 1..Len(calls) :
          (calls[i].op = "setUserPreferences" /\ DOMAIN calls[i].args = {"colorScheme"})
          => LET from == calls[i].user.preferences.colorScheme
                 to == calls[i].args.colorScheme
             IN /\ from = "light" => to = "dark"
                /\ from = "dark" => to = "system"
                /\ from = "system" => to = "light"
    /\ (/\ Len(calls) = 3
        /\ \A i \in 1..3 : Toggled(i)
        /\ \A i \in 1..2 : calls[i + 1].user.preferences = calls[i].data)
       => /\ user.preferences = calls[1].user.preferences
          /\ RowOf(dbProfiles, user.id).preferences = calls[1].user.preferences

\* three toggles were made one after the other from the dark scheme with the
\* content preview on, and each succeeded
C17_Witness ==
    /\ Len(calls) = 3
    /\ \A i \in 1..3 : Toggled(i)
    /\ \A i \in 1..2 : calls[i + 1].user.preferences = calls[i].data
    /\ calls[1].user.preferences.colorScheme = "dark"
    /\ calls[2].user.preferences.colorScheme = "system"
    /\ calls[3].user.preferences.colorScheme = "light"
    /\ user.preferences.showContentInFeed

(***************************************************************************)
(* PostPage: the detail page of the post the route names.  The component   *)
(* keeps its state when the route parameter changes; every fetchData run   *)
(* runs to its end and sets the state of the page as it is then.           *)
(***************************************************************************)
homeState == <<homeMounted, searchQuery, sortBy, selectedFlag, filteredPosts, localLoading,
               runs, sortInput, lastInput>>

\* a repost of the user's post by the other user
Repost ==
    Post(6, <<"b">>, <<>>, NoText, 1, 0, OtherId, OtherUser.full_name, NoFlag, OwnPost.id)

\* the ids a post route can name
PostRoutes == {OwnPost.id, OtherPost.id, Repost.id}

\* a fetchData run: the postId of its render, where it waits, and its postData
Fetch(id, pc, postData) == [postId |-> id, pc |-> pc, postData |-> postData]

IsFetch(k, pc) == k \in 1..Len(postPage.fetches) /\ postPage.fetches[k].pc = pc

\* getPostById: the row, or undefined on an error (single() without a row is one)
GetPostById(id, failed) ==
    IF failed \/ ~HasRow(dbPosts, id) THEN NoPost ELSE RowOf(dbPosts, id)

\* getCommentsForPost: the comments of the post, oldest first, or [] on an error
GetCommentsForPost(id, failed) ==
    IF failed THEN {<<>>} ELSE OrderedAsc(CommentsOf(dbComments, id))

\* the route /post/:postId is entered from another page: the first render and the
\* effect, which runs fetchData to its first await
MountPostPage(id) ==
    /\ postPage.postId = NoId
    /\ postPage' = [NoPostPage EXCEPT !.postId = id, !.localLoading = TRUE,
                                      !.fetches = <<Fetch(id, "post", NoPost)>>]
    /\ UNCHANGED <<backendVars, providerVars, homeState, forms>>

\* a link to another post is followed on the page: postId changes, the state of
\* the component stays, and the effect runs fetchData to its first await
NavigatePostPage(id) ==
    /\ postPage.postId # NoId
    /\ postPage.postId # id
    /\ Len(postPage.fetches) < MaxRuns
    /\ postPage' = [postPage EXCEPT !.postId = id, !.localLoading = TRUE,
                                    !.fetches = Append(@, Fetch(id, "post", NoPost))]
    /\ UNCHANGED <<backendVars, providerVars, homeState, forms>>

\* getPostById(postId) is served and fetchData resumes: without a post it goes to
\* /404 and the page is left; otherwise setPost, and the comments are requested
FetchDataPost(k) ==
    /\ IsFetch(k, "post")
    /\ \E failed \in BOOLEAN :
        LET postData == GetPostById(postPage.fetches[k].postId, failed)
        IN postPage' =
              IF postData = NoPost THEN NoPostPage
              ELSE [postPage EXCEPT !.post = postData,
                                    !.fetches[k] = Fetch(@.postId, "comments", postData)]
    /\ UNCHANGED <<backendVars, providerVars, homeState, forms>>

\* getCommentsForPost(postId) is served and fetchData resumes: setComments, then
\* with a repost_of the original is requested, without one the run ends with
\* setLocalLoading(false)
FetchDataComments(k) ==
    /\ IsFetch(k, "comments")
    /\ \E failed \in BOOLEAN :
        \E commentsData \in GetCommentsForPost(postPage.fetches[k].postId, failed) :
            postPage' =
                IF postPage.fetches[k].postData.repost_of # NoId
                THEN [postPage EXCEPT !.comments = commentsData,
                                      !.fetches[k].pc = "original"]
                ELSE [postPage EXCEPT !.comments = commentsData,
                                      !.localLoading = FALSE,
                                      !.fetches = RemoveAt(@, k)]
    /\ UNCHANGED <<backendVars, providerVars, homeState, forms>>

\* getPostById(postData.repost_of) is served and fetchData resumes:
\* setOriginalPost, then setLocalLoading(false)
FetchDataOriginal(k) ==
    /\ IsFetch(k, "original")
    /\ \E failed \in BOOLEAN :
        postPage' =
            [postPage EXCEPT
                !.originalPost = GetPostById(postPage.fetches[k].postData.repost_of, failed),
                !.localLoading = FALSE,
                !.fetches = RemoveAt(@, k)]
    /\ UNCHANGED <<backendVars, providerVars, homeState, forms>>

InitPostPage ==
    /\ dbPosts = {OwnPost, OtherPost, Repost}
    /\ dbComments = {OtherComment, OwnComment}
    /\ dbProfiles = {AnonymousUser, OtherUser}
    /\ channel = <<>>
    /\ session = NoSession
    /\ now = 1
    /\ nextId = 7
    /\ storage = LocalId
    /\ initPc = "done"
    /\ initData = <<>>
    /\ isLoading = FALSE
    /\ posts = <<Repost, OtherPost, OwnPost>>
    /\ comments = <<OtherComment, OwnComment>>
    /\ user = AnonymousUser
    /\ toasts = {}
    /\ calls = <<>>
    /\ homeMounted = FALSE
    /\ searchQuery = <<>>
    /\ sortBy = "time"
    /\ selectedFlag = NoFlag
    /\ filteredPosts = <<>>
    /\ localLoading = FALSE
    /\ runs = <<>>
    /\ sortInput = <<>>
    /\ lastInput = "none"
    /\ postPage = NoPostPage
    /\ forms = NoForms

NextPostPage ==
    \/ \E id \in PostRoutes : MountPostPage(id)
    \/ \E id \in PostRoutes : NavigatePostPage(id)
    \/ \E k \in 1..MaxRuns : FetchDataPost(k)
    \/ \E k \in 1..MaxRuns : FetchDataComments(k)
    \/ \E k \in 1..MaxRuns : FetchDataOriginal(k)

SpecPostPage == InitPostPage /\ [][NextPostPage]_vars

\* C18: when the page shows a post without a repost reference (no fetchData run
\* pending, so the spinner is gone), it shows no original post.
C18_NoOriginalWithoutRepost ==
    (/\ postPage.postId # NoId
     /\ postPage.fetches = <<>>
     /\ ~postPage.localLoading
     /\ postPage.post # NoPost
     /\ postPage.post.repost_of = NoId)
    => postPage.originalPost = NoPost

(***************************************************************************)
(* updatePost: what a served update leaves in the posts table.             *)
(***************************************************************************)
\* the update of call i is served without error in this step
UpdateServed(i) ==
    /\ At(i, "updatePost", "update")
    /\ calls'[i].result = "true"

\* C19: a successful updatePost changes only the title, content, image
\* reference and flag of the stored post it names: the id, owner, creation
\* time, upvote count and repost reference of that post stay the same, the
\* four fields are the submitted ones, and no other stored post changes
C19_UpdateTouchesFourFields ==
    [][\A i \in 1..Len(calls) :
         UpdateServed(i) =>
           /\ {r.id : r \in dbPosts'} = {r.id : r \in dbPosts}
           /\ \A r \in dbPosts :
                LET after == RowOf(dbPosts', r.id)
                IN IF r.id = calls[i].target
                   THEN /\ after.id = r.id
                        /\ after.user_id = r.user_id
                        /\ after.created_at = r.created_at
                        /\ after.upvotes = r.upvotes
                        /\ after.repost_of = r.repost_of
                        /\ after.title = calls[i].args.title
                        /\ after.content = calls[i].args.content
                        /\ after.image_url = calls[i].args.image_url
                        /\ after.flag = calls[i].args.flag
                   ELSE after = r]_vars

\* an updatePost has returned true and the stored post carries the edit
C19_Witness ==
    \E i \in 1..Len(calls) :
        /\ calls[i].op = "updatePost"
        /\ calls[i].result = "true"
        /\ HasRow(dbPosts, calls[i].target)
        /\ RowOf(dbPosts, calls[i].target) # OwnPost
        /\ RowOf(dbPosts, calls[i].target).title = calls[i].args.title
        /\ RowOf(dbPosts, calls[i].target).upvotes = OwnPost.upvotes
        /\ OtherPost \in dbPosts

(***************************************************************************)
(* initializeApp: the profile the session starts with.                     *)
(***************************************************************************)
\* the profile lookup of initializeApp is answered with the stored profile
LookupSucceeded ==
    /\ initPc \in {"authProfile", "anonProfile"}
    /\ initPc' = "fetchPosts"

\* the insert of the new profile is answered, after a lookup that returned no
\* record or failed
InsertAnswered ==
    /\ initPc = "insertProfile"
    /\ initPc' = "fetchPosts"

\* C20: at startup, when the profile lookup for the resolved id returns no
\* record or fails, a new profile with that id and the default preferences is
\* inserted and becomes the active user; when the lookup succeeds, the stored
\* profile becomes the active user unchanged and nothing is inserted
C20_StartupProfile ==
    [][/\ InsertAnswered =>
            /\ user'.id = initData.id
            /\ user'.preferences = DefaultPreferences
            /\ user' \in dbProfiles'
       /\ LookupSucceeded =>
            /\ user' \in dbProfiles
            /\ user'.id = initData.id
            /\ dbProfiles' = dbProfiles]_vars

(***************************************************************************)
(* PostForm on the create and the edit page, and CommentSection on the     *)
(* detail page.  Each page renders the spinner in place of its form while  *)
(* isLoading or its localLoading is set, so a form is unmounted by the     *)
(* render that follows its own submission and is mounted anew, with its    *)
(* initial state, when the call has ended.                                 *)
(***************************************************************************)
MaxSubmits == 3

\* what the user types into a title or a comment field
FormTexts == {<<>>, <<" ">>, <<"a">>}

\* PostForm is rendered by its page
PostFormShown == ~isLoading /\ ~forms.localLoading

\* a submit event a handleSubmit has handled
Submitted(form, text) == [form |-> form, text |-> text]

\* the title input's onChange: setTitle(e.target.value)
SetTitle(t) ==
    /\ PostFormShown
    /\ t # forms.title
    /\ forms' = [forms EXCEPT !.title = t]
    /\ UNCHANGED <<backendVars, providerVars, homeState, postPage>>

\* the comment field's onChange: setContent(e.target.value)
SetContent(c) ==
    /\ ~isLoading
    /\ c # forms.content
    /\ forms' = [forms EXCEPT !.content = c]
    /\ UNCHANGED <<backendVars, providerVars, homeState, postPage>>

\* the route /edit/:postId is entered: EditPostPage renders with localLoading
\* and its effect calls getPostById(postId)
OpenEditPost(id) ==
    /\ PostFormShown
    /\ forms.editing = NoId
    /\ forms' = [forms EXCEPT !.editing = id, !.localLoading = TRUE]
    /\ UNCHANGED <<backendVars, providerVars, homeState, postPage>>

\* getPostById is served and fetchPost resumes: without the post, or with the post
\* of another user, the page is left (for the create page here); otherwise
\* setPost, and PostForm is mounted with the post's title
EditPostFetched ==
    /\ forms.editing # NoId
    /\ forms.localLoading
    /\ forms.waiting = {}
    /\ \E failed \in BOOLEAN :
        LET fetchedPost == GetPostById(forms.editing, failed)
            page == [forms EXCEPT !.localLoading = FALSE, !.validationError = ""]
        IN IF fetchedPost = NoPost
           THEN /\ forms' = [page EXCEPT !.editing = NoId, !.defaultTitle = <<>>,
                                         !.title = <<>>]
                /\ UNCHANGED toasts
           ELSE IF fetchedPost.user_id # user.id
           THEN /\ forms' = [page EXCEPT !.editing = NoId, !.defaultTitle = <<>>,
                                         !.title = <<>>]
                /\ toasts' = toasts \cup {"Access denied"}
           ELSE /\ forms' = [page EXCEPT !.defaultTitle = fetchedPost.title,
                                         !.title = fetchedPost.title]
                /\ UNCHANGED toasts
    /\ UNCHANGED <<backendVars, homeState, postPage>>
    /\ UNCHANGED <<initPc, initData, isLoading, posts, comments, user, calls>>

\* what PostForm hands to onSubmit: title, content, imageUrl, flag, repostOf
FormArgs == PostArgs(forms.title, <<>>, NoText, NoFlag, NoId)

\* PostForm's handleSubmit, to its await: a blank title sets the validation
\* error and returns; otherwise onSubmit is called, which is handleSubmit of
\* the page: setLocalLoading(true), then createPost or updatePost to its
\* first await
PostFormSubmit ==
    /\ PostFormShown
    /\ Len(forms.submitted) < MaxSubmits
    /\ LET handled == Append(forms.submitted, Submitted("post", forms.title))
       IN IF IsBlank(forms.title)
          THEN /\ forms' = [forms EXCEPT !.validationError = "Title is required",
                                         !.submitted = handled]
               /\ UNCHANGED <<backendVars, providerVars, homeState, postPage>>
          ELSE /\ IF forms.editing = NoId
                  THEN StartLoadingCall("createPost", "insert", NoId, FormArgs)
                  ELSE StartLoadingCall("updatePost", "select", forms.editing, FormArgs)
               /\ forms' = [forms EXCEPT !.validationError = "",
                                         !.localLoading = TRUE,
                                         !.waiting = @ \cup {Len(calls) + 1},
                                         !.submitted = handled]
               /\ UNCHANGED postPage

\* createPost or updatePost has ended and handleSubmit of the page resumes: on
\* success it navigates away (the create page is what is entered next here);
\* after a throw it raises its own toast; setLocalLoading(false) mounts PostForm
\* anew
PostFormResume(i) ==
    /\ i \in forms.waiting
    /\ calls[i].op \in {"createPost", "updatePost"}
    /\ calls[i].pc = "done"
    /\ forms' =
         IF calls[i].result \in {"returned", "true"}
         THEN [forms EXCEPT !.editing = NoId, !.defaultTitle = <<>>, !.title = <<>>,
                            !.localLoading = FALSE, !.waiting = @ \ {i}]
         ELSE [forms EXCEPT !.title = forms.defaultTitle,
                            !.localLoading = FALSE, !.waiting = @ \ {i}]
    /\ toasts' = IF calls[i].result = "threw" THEN toasts \cup {"Error"} ELSE toasts
    /\ UNCHANGED <<backendVars, homeState, postPage>>
    /\ UNCHANGED <<initPc, initData, isLoading, posts, comments, user, calls>>

\* CommentSection's handleSubmit, to its await: a blank content returns;
\* otherwise createComment(postId, content) to its first await
CommentSubmit(p) ==
    /\ ~isLoading
    /\ Len(forms.submitted) < MaxSubmits
    /\ LET handled == Append(forms.submitted, Submitted("comment", forms.content))
       IN IF IsBlank(forms.content)
          THEN /\ forms' = [forms EXCEPT !.submitted = handled]
               /\ UNCHANGED <<backendVars, providerVars, homeState, postPage>>
          ELSE /\ StartLoadingCall("createComment", "insert", p, forms.content)
               /\ forms' = [forms EXCEPT !.waiting = @ \cup {Len(calls) + 1},
                                         !.submitted = handled]
               /\ UNCHANGED postPage

\* createComment has ended and handleSubmit resumes: setContent("") after a
\* success; the section was mounted anew with an empty field in either case
CommentResume(i) ==
    /\ i \in forms.waiting
    /\ calls[i].op = "createComment"
    /\ calls[i].pc = "done"
    /\ forms' = [forms EXCEPT !.content = <<>>, !.waiting = @ \ {i}]
    /\ UNCHANGED <<backendVars, providerVars, homeState, postPage>>

NextForms ==
    \/ \E t \in FormTexts : SetTitle(t)
    \/ \E c \in FormTexts : SetContent(c)
    \/ \E id \in {OwnPost.id, OtherPost.id} : OpenEditPost(id)
    \/ EditPostFetched
    \/ PostFormSubmit
    \/ \E i \in 1..MaxCalls : PostFormResume(i)
    \/ CommentSubmit(OwnPost.id)
    \/ \E i \in 1..MaxCalls : CommentResume(i)
    \/ \E i \in 1..MaxCalls : CreatePostInsert(i)
    \/ \E i \in 1..MaxCalls : UpdatePostSelect(i)
    \/ \E i \in 1..MaxCalls : UpdatePostWrite(i)
    \/ \E i \in 1..MaxCalls : CreateCommentInsert(i)
    \/ DeliverEvent

SpecForms == InitSession /\ [][NextForms]_vars

\* a text that is empty or made of white space only
WhiteSpaceOnly(t) == \A k \in 1..Len(t) : t[k] = " "

\* the submit events handled with a text that is not blank
Accepted == {k \in 1..Len(forms.submitted) : ~WhiteSpaceOnly(forms.submitted[k].text)}

\* C21: a post form submission whose title is empty or white space only, and a
\* comment submission whose content is empty or white space only, is rejected
\* locally: it makes no createPost, updatePost or createComment call, so that
\* there are as many calls (and backend requests only by them) as submissions
\* with a text that is not blank, and no call carries a blank title or content
C21_BlankSubmissionRejected ==
    /\ Len(calls) = Cardinality(Accepted)
    /\ \A i \in 1..Len(calls) :
         /\ calls[i].op \in {"createPost", "updatePost"} => ~WhiteSpaceOnly(calls[i].args.title)
         /\ calls[i].op = "createComment" => ~WhiteSpaceOnly(calls[i].args)
    /\ (calls = <<>>) => (dbPosts = {OwnPost, OtherPost} /\ dbComments = {OtherComment, OwnComment}
                          /\ channel = <<>>)

\* a white-space title and an empty comment have been submitted and rejected,
\* and one submission has been accepted
C21_Witness ==
    /\ \E k \in 1..Len(forms.submitted) :
          forms.submitted[k] = Submitted("post", <<" ">>)
    /\ \E k \in 1..Len(forms.submitted) :
          forms.submitted[k] = Submitted("comment", <<>>)
    /\ forms.validationError = "Title is required"
    /\ Len(calls) = 1

(***************************************************************************)
(* The mirror during and after startup: the user is resolved, the          *)
(* subscriptions are set up and fetchPosts has just been called, while the *)
(* user and others change the stored posts and comments.                   *)
(***************************************************************************)
\* a row of comments is edited by a client other than this application; the
\* subscription listens to every event of the table
CommentEdited(c, content) ==
    /\ HasRow(dbComments, c)
    /\ RowOf(dbComments, c).content # content
    /\ Len(channel) < MaxChannel
    /\ dbComments' = UpdateRow(dbComments, c, [content |-> content])
    /\ channel' = Append(channel,
                         Event("comments", "UPDATE",
                               Spread(RowOf(dbComments, c), [content |-> content])))
    /\ UNCHANGED <<dbPosts, dbProfiles, session, now, nextId, storage>>
    /\ UNCHANGED <<providerVars, homeVars>>

InitFeed ==
    /\ dbPosts = {OwnPost, OtherPost}
    /\ dbComments = {OtherComment, OwnComment}
    /\ dbProfiles = {AnonymousUser, OtherUser}
    /\ channel = <<>>
    /\ session = NoSession
    /\ now = 1
    /\ nextId = 5
    /\ storage = LocalId
    /\ initPc = "fetchPosts"
    /\ initData = <<>>
    /\ isLoading = TRUE
    /\ posts = <<>>
    /\ comments = <<>>
    /\ user = AnonymousUser
    /\ toasts = {}
    /\ calls = <<>>
    /\ homeMounted = FALSE
    /\ searchQuery = <<>>
    /\ sortBy = "time"
    /\ selectedFlag = NoFlag
    /\ filteredPosts = <<>>
    /\ localLoading = FALSE
    /\ runs = <<>>
    /\ sortInput = <<>>
    /\ lastInput = "none"
    /\ postPage = NoPostPage
    /\ forms = NoForms

\* the calls made while the mirror is being loaded and fed
MaxFeedCalls == 2

NextFeed ==
    \/ FetchPostsServe
    \/ FetchPostsResume
    \/ FetchCommentsServe
    \/ FetchCommentsResume
    \/ DeliverEvent
    \/ Len(calls) < MaxFeedCalls /\ \E a \in NewPosts : CreatePostStart(a)
    \/ \E i \in 1..MaxCalls : CreatePostInsert(i)
    \/ Len(calls) < MaxFeedCalls /\ DeletePostStart(OwnPost.id)
    \/ \E i \in 1..MaxCalls : DeletePostSelect(i)
    \/ \E i \in 1..MaxCalls : DeletePostComments(i)
    \/ \E i \in 1..MaxCalls : DeletePostRow(i)
    \/ Len(calls) < MaxFeedCalls /\ CreateCommentStart(OtherPost.id, <<"a">>)
    \/ \E i \in 1..MaxCalls : CreateCommentInsert(i)
    \/ Len(calls) < MaxFeedCalls /\ DeleteCommentStart(OwnComment.id)
    \/ \E i \in 1..MaxCalls : DeleteCommentSelect(i)
    \/ \E i \in 1..MaxCalls : DeleteCommentRow(i)
    \/ \E a \in OtherEdits : OtherUserUpdatesPost(OtherPost.id, a)
    \/ CommentEdited(OtherComment.id, <<"a", "b">>)

SpecFeed == InitFeed /\ [][NextFeed]_vars

\* the feed delivers its oldest change in this step
Delivered == channel # <<>> /\ channel' = Tail(channel)

\* the entries of a mirror before position k that carry the id
Before(mirror, k, id) == Cardinality({j \in 1..(k - 1) : mirror[j].id = id})

\* next is prev with every entry of the row's id replaced by the row, in place
ReplacedInPlace(prev, next, row) ==
    /\ Len(next) = Len(prev)
    /\ \A k \in 1..Len(prev) :
         next[k] = IF prev[k].id = row.id THEN row ELSE prev[k]

\* next is prev without the entries of the id, the others in their order
RemovedInPlace(prev, next, id) ==
    /\ Len(next) = Len(prev) - Before(prev, Len(prev) + 1, id)
    /\ \A k \in 1..Len(prev) :
         prev[k].id # id => next[k - Before(prev, k, id)] = prev[k]

\* what the claim says of a change of a mirror by an event
Mirrored(prev, next, e, atHead) ==
    /\ e.eventType = "INSERT" =>
         next = IF atHead THEN <<e.row>> \o prev ELSE prev \o <<e.row>>
    /\ e.eventType = "UPDATE" => ReplacedInPlace(prev, next, e.row)
    /\ e.eventType = "DELETE" => RemovedInPlace(prev, next, e.row.id)
    /\ (e.eventType # "INSERT" /\ Before(prev, Len(prev) + 1, e.row.id) = 0) => next = prev

\* C22: a push insert places a post at the head of the post mirror and a
\* comment at the tail of the comment mirror; an update replaces the entry with
\* the same id in place and a delete removes it; every other entry and the
\* relative order of the remaining entries are unchanged, and an update or
\* delete for an id not in the mirror changes nothing
C22_EventsAppliedInPlace ==
    [][Delivered =>
         IF Head(channel).table = "posts"
         THEN /\ Mirrored(posts, posts', Head(channel), TRUE)
              /\ comments' = comments
         ELSE /\ Mirrored(comments, comments', Head(channel), FALSE)
              /\ posts' = posts]_vars

\* after startup the created post is at the head of the mirror, the edited
\* post of the other user is in its place behind it, the deleted post and its
\* comments are in neither mirror
C22_Witness ==
    /\ initPc = "done"
    /\ channel = <<>>
    /\ Len(posts) = 2
    /\ posts[1].id >= 5
    /\ posts[2].id = OtherPost.id
    /\ posts[2] # OtherPost
    /\ posts[2] \in dbPosts
    /\ ~HasRow(dbPosts, OwnPost.id)
    /\ comments = <<>>
    /\ dbComments = {}
    /\ toasts = {"Post created", "Post deleted"}

(***************************************************************************)
(* deletePost: the comment cascade and the delete of the post.             *)
(***************************************************************************)
\* the post delete of call i is answered in this step, after its comment delete
\* had removed the comments
PostDeleteAnswered(i) ==
    /\ At(i, "deletePost", "post")
    /\ ~calls[i].error
    /\ calls'[i].pc = "done"

\* the comment delete of call i is served in this step
CascadeServed(i) ==
    /\ At(i, "deletePost", "comments")
    /\ calls'[i].pc # "comments"

\* the stored comments that reference the post after the step
ReferencingAfter(p) == {c \in dbComments' : c.post_id = p}

NextStartup ==
    \/ FetchPostsServe
    \/ FetchPostsResume
    \/ FetchCommentsServe
    \/ FetchCommentsResume
    \/ DeliverEvent
    \/ \E a \in NewPosts : OtherUserCreatesPost(a)
    \/ \E a \in OtherEdits : OtherUserUpdatesPost(OtherPost.id, a)
    \/ Tick

SpecStartup ==
    /\ InitStore
    /\ [][NextStartup]_vars
    /\ WF_initPc(FetchPostsServe)
    /\ WF_initPc(FetchPostsResume)
    /\ WF_initPc(FetchCommentsServe)
    /\ WF_initPc(FetchCommentsResume)

\* fetchPosts resumes from a failed request in this step
PostsFetchFailed ==
    /\ initPc = "fetchedPosts"
    /\ initData.error
    /\ initPc' # initPc

\* fetchComments resumes from a failed request in this step
CommentsFetchFailed ==
    /\ initPc = "fetchedComments"
    /\ initData.error
    /\ initPc' # initPc

\* C24: if the initial fetch of posts or of comments fails, a notification is
\* surfaced, the corresponding in-memory collection is left as it was,
\* initialization still runs to completion and isLoading becomes false
C24_FailedFetchGoesOn ==
    /\ [][/\ PostsFetchFailed =>
               /\ "Error fetching posts" \in toasts'
               /\ posts' = posts
               /\ initPc' = "fetchComments"
          /\ CommentsFetchFailed =>
               /\ "Error fetching comments" \in toasts'
               /\ comments' = comments
               /\ initPc' = "done"
               /\ ~isLoading']_initPc
    /\ <>(initPc = "done" /\ ~isLoading)

\* both fetches failed, initialization is complete, and the mirror holds the
\* post that was pushed before fetchPosts resumed
C24_Witness ==
    /\ initPc = "done"
    /\ ~isLoading
    /\ {"Error fetching posts", "Error fetching comments"} \subseteq toasts
    /\ Len(posts) = 1
    /\ comments = <<>>
    /\ Cardinality(dbPosts) = 3

(***************************************************************************)
(* Visits: the page is loaded again and again in the same browser, which   *)
(* keeps its local storage; the backend keeps its tables.                  *)
(***************************************************************************)
\* the page is loaded anew: AppProvider is constructed and its effect calls
\* initializeApp, which runs to its first await
Reload ==
    /\ initPc # "getSession"
    /\ initPc' = "getSession"
    /\ initData' = <<>>
    /\ isLoading' = TRUE
    /\ posts' = <<>>
    /\ comments' = <<>>
    /\ user' = NoUser
    /\ toasts' = {}
    /\ calls' = <<>>
    /\ UNCHANGED <<backendVars, homeVars>>

NextVisits ==
    \/ InitGetSession
    \/ InitAuthProfile
    \/ InitAnonProfile
    \/ InitInsertProfile
    \/ Reload

SpecVisits == InitIdentity /\ [][NextVisits]_vars

\* C25: with no authenticated session, the anonymous identifier under the
\* local-storage key artemis-eco-user-id is generated only when the key is
\* absent, and once stored its value is never replaced by a different value:
\* every later startup reads and uses the same identifier
C25_AnonymousIdIsKept ==
    [][session = NoSession =>
         /\ storage # NoStorage => storage' = storage
         /\ storage' # storage => storage' \in Uuids
         /\ (initPc = "getSession" /\ initPc' # initPc) =>
               (storage' # NoStorage /\ initData'.id = storage')
         /\ user' # NoUser => user'.id = storage']_vars

\* a later visit uses the identifier an earlier visit generated: the profile
\* stored for it was inserted by that visit, the active user of this visit is
\* a new one with the same identifier
C25_Witness ==
    /\ session = NoSession
    /\ storage = "fresh-uuid"
    /\ user # NoUser
    /\ user.id = storage
    /\ HasRow(dbProfiles, storage)
    /\ RowOf(dbProfiles, storage) # user

\* the ids a mirror holds
MirrorIds(mirror) == {mirror[k].id : k \in 1..Len(mirror)}

\* C26: after initialization has completed (its fetch of the posts answered
\* without error) and every push notification has been delivered, the post
\* mirror holds exactly the posts stored in the backend, each id once, also
\* when posts are inserted or deleted between the setup of the subscription
\* and the completion of the initial fetch
C26_MirrorEqualsStore ==
    (/\ initPc = "done"
     /\ channel = <<>>
     /\ "Error fetching posts" \notin toasts)
    => /\ MirrorIds(posts) = {r.id : r \in dbPosts}
       /\ \A id \in MirrorIds(posts) : Occurrences(posts, id) = 1

\* the feeds the derivation yields for the current query, flag and sort mode:
\* the search (the mirror for a blank query), then the flag filter, then the sort
Derived ==
    IF IsBlank(searchQuery)
    THEN {SortPosts(FilterFlag(posts, selectedFlag), sortBy)}
    ELSE {SortPosts(FilterFlag(rows, selectedFlag), sortBy) :
             rows \in Orderings(SearchRows(dbPosts, searchQuery))}

\* C27: once every outstanding search request has resolved (none of them with
\* an error, and with the stored posts and the mirror as they were), the feed
\* displayed on the home page equals the derivation (search, then flag filter,
\* then sort) for the current query, flag and sort mode: the response to an
\* earlier query, or a search submitted through the form, never leaves a
\* result that differs from it
C27_FeedIsCurrentDerivation ==
    (/\ homeMounted
     /\ runs = <<>>
     /\ channel = <<>>
     /\ toasts = {}
     /\ dbPosts = {OwnPost, OtherPost}
     /\ posts = <<OtherPost, OwnPost>>)
    => filteredPosts \in Derived

\* the operations that set the shared isLoading flag
LoadingOps == {"createPost", "updatePost", "deletePost", "createComment", "deleteComment"}

\* initialization or a call of one of these operations is still in flight
InFlight ==
    \/ initPc # "done"
    \/ \E i \in 1..Len(calls) : calls[i].op \in LoadingOps /\ calls[i].pc # "done"

\* C28: in every reachable state the shared isLoading flag is true exactly when
\* initialization or at least one of createPost, updatePost, deletePost,
\* createComment, deleteComment is still in flight; it is false after every
\* such call has returned or thrown, and it stays true while a second
\* overlapping call is pending
C28_LoadingIffInFlight == isLoading <=> InFlight

\* call i is a setUserPreferences whose update succeeded
PreferencesStored(i) ==
    /\ calls[i].op = "setUserPreferences"
    /\ calls[i].pc = "done"
    /\ calls[i].result = "returned"
    /\ ~calls[i].error

\* preferences p carry every field call i asked for
Carries(p, i) == \A f \in DOMAIN calls[i].args : p[f] = calls[i].args[f]

\* C29: two setUserPreferences calls that change different preference fields
\* and both succeed leave both changes in the stored and the in-memory
\* preferences, also when the second call is issued before the first has
\* completed
C29_BothPreferenceChangesKept ==
    (/\ Len(calls) = 2
     /\ PreferencesStored(1)
     /\ PreferencesStored(2)
     /\ DOMAIN calls[1].args \cap DOMAIN calls[2].args = {})
    => /\ Carries(user.preferences, 1)
       /\ Carries(user.preferences, 2)
       /\ Carries(RowOf(dbProfiles, user.id).preferences, 1)
       /\ Carries(RowOf(dbProfiles, user.id).preferences, 2)

(***************************************************************************)
(* PostPage: the upvote button of the detail page.                         *)
(***************************************************************************)
\* handleUpvote, to its await: upvotePost(post.id) is called
HandleUpvote ==
    /\ postPage.post # NoPost
    /\ ~postPage.localLoading
    /\ ~isLoading
    /\ UpvoteCall(postPage.post.id)
    /\ postPage' = [postPage EXCEPT !.upvoting = @ \cup {Len(calls) + 1}]
    /\ UNCHANGED forms

\* upvotePost has ended and handleUpvote resumes: unless it threw,
\* setPost((prev) => prev ? {...prev, upvotes: prev.upvotes + 1} : prev)
HandleUpvoteResume(i) ==
    /\ i \in postPage.upvoting
    /\ calls[i].pc = "done"
    /\ postPage' =
         [postPage EXCEPT
            !.upvoting = @ \ {i},
            !.post = IF calls[i].result = "threw" \/ @ = NoPost THEN @
                     ELSE [@ EXCEPT !.upvotes = @ + 1]]
    /\ UNCHANGED <<backendVars, providerVars, homeState, forms>>

NextDetail ==
    \/ \E id \in PostRoutes : MountPostPage(id)
    \/ \E k \in 1..MaxRuns : FetchDataPost(k)
    \/ \E k \in 1..MaxRuns : FetchDataComments(k)
    \/ \E k \in 1..MaxRuns : FetchDataOriginal(k)
    \/ HandleUpvote
    \/ \E i \in 1..MaxCalls : HandleUpvoteResume(i)
    \/ \E i \in 1..MaxCalls : UpvoteSelect(i)
    \/ \E i \in 1..MaxCalls : UpvoteUpdate(i)
    \/ \E i \in 1..MaxCalls : UpvotePatch(i)
    \/ DeliverEvent

SpecDetail == InitPostPage /\ [][NextDetail]_vars

\* handleUpvote resumes from call i in this step, on a page that shows a post
UpvoteShown(i) ==
    /\ i \in postPage.upvoting
    /\ i \notin postPage'.upvoting
    /\ postPage.post # NoPost
    /\ postPage'.post # NoPost

\* C30: the upvote count shown on a post's detail page increases by one only
\* for an upvotePost call that persisted an increment: when upvotePost ends
\* with NotFound or its backend write fails, the displayed count is unchanged
C30_ShownCountFollowsStore ==
    [][\A i \in 1..Len(calls) :
         UpvoteShown(i) =>
           IF calls[i].result = "returned" /\ ~calls[i].error
           THEN postPage'.post.upvotes = postPage.post.upvotes + 1
           ELSE postPage'.post.upvotes = postPage.post.upvotes]_vars

====
